---- MODULE Spec2Model ----
(***************************************************************************)
(* A model of the spectator cognitive runtime: the per-turn role pipeline  *)
(* (runtime/pipeline.py), its three marker parsers (tool_calls.py,         *)
(* notes.py, sanitize.py), the capability operations (capabilities.py)     *)
(* and the state condenser (condense.py).                                  *)
(*                                                                         *)
(* Representation of Python strings.  A text is a sequence of chunks, and  *)
(* the Python string is the concatenation of the chunks.  The chunks are   *)
(* chosen so that every substring test the code makes is exact on chunk    *)
(* boundaries:                                                             *)
(*   - each of the four markers is two chunks, its own head followed by    *)
(*     the common tail "JSON>>>", so that a marker can be cut in two and   *)
(*     another one placed inside it;                                       *)
(*   - " " and "\n" are one-character whitespace chunks, a blank line is   *)
(*     two "\n" chunks;                                                    *)
(*   - a scaffolding header ("STATE:", ...) is one chunk;                  *)
(*   - a JSON document is one chunk, its own text; json.loads is the       *)
(*     table JsonOf over the documents the model uses.                     *)
(***************************************************************************)
EXTENDS Integers, Sequences, FiniteSets, TLC

VARIABLES
    state,          \* checkpoint.state: the State dataclass (core/types.py)
    pc,             \* position of the running operation
    roleIdx,        \* index in DefaultRoles of the role being processed
    response,       \* the backend's latest raw completion for the role
    finalResponse,  \* final_response of run_pipeline
    toolCalls,      \* tool_calls of the governor's plan
    toolResults,    \* tool_results gathered so far
    trace,          \* the events written by the tracer, in order
    results,        \* RoleResult accumulator
    finalText,      \* final_text returned by run_pipeline
    hasExecutor,    \* tool_executor is not None
    maxToolRounds,  \* max_tool_rounds
    menu,           \* the completions the backend may return in this run
    roleStartState, \* checkpoint.state when the current role started
    executed,       \* calls handed to tool_executor.execute_calls: <<role, id>>
    capOp,          \* the last capability operation: [op, cap, changed]
    stream,         \* role.params["stream"]: the backend streams its deltas
    env,            \* a tool or parser called on its own: its inputs and outcome
    checkpoint,     \* the Checkpoint in memory, but for its state
    clock,          \* time.time()
    files,          \* checkpoints/<session>.json and <session>.json.tmp
    traces,         \* the trace files left by earlier turns, by run id
    sess,           \* the session's operation in progress and its history
    limits,         \* how many turns, additions and faults the run may hold
    saveCall,       \* the call of save_checkpoint in progress or just ended
    lastLoad        \* what the last load_latest returned or raised

vars == <<state, pc, roleIdx, response, finalResponse, toolCalls, toolResults,
          trace, results, finalText, hasExecutor, maxToolRounds, menu,
          roleStartState, executed, capOp, stream, env, env, checkpoint, clock,
          files,
          traces, sess, limits, saveCall, lastLoad>>

\* what run_turn and the administrative operations keep around run_pipeline
sessionVars == <<checkpoint, clock, files, traces, sess, limits, saveCall, lastLoad>>

pipeVars == <<pc, roleIdx, response, finalResponse, toolCalls, toolResults,
              trace, results, finalText, hasExecutor, maxToolRounds, menu,
              roleStartState, executed, stream, env>>

-----------------------------------------------------------------------------
(* Bounds of the model.                                                    *)

\* longest capabilities_granted / capabilities_pending list of an initial state
MaxCapLen == 2
\* longest action list handed to apply_permission_actions
MaxActions == 2
\* calls of http.get in one run
MaxHttpCalls == 3
\* pieces of a user path
MaxPathLen == 4
\* characters and words of a shell command
MaxCmdLen == 6
\* tool calls in one block
MaxCalls == 2
\* tool results in one block
MaxResults == 2
\* pieces of a checkpoint payload
MaxPayloadLen == 3
\* turns of a session
MaxTurns == 2
\* faults (an exception of the backend or of a file operation, a crash) in a
\* session of turns
MaxFaults == 1
\* administrative additions in a session of additions, one more than
\* CondensePolicy.max_open_loops
MaxAdds == 33
\* turns in a session of additions
MaxAdminTurns == 1

-----------------------------------------------------------------------------
(* Strings as chunk sequences.                                             *)

SP == " "
NL == "\n"
Whitespace == {SP, NL}

\* text[i:] with a 1-based index
Tail_(s, i) == SubSeq(s, i, Len(s))

\* text[:i-1] with a 1-based index
Head_(s, i) == SubSeq(s, 1, i - 1)

\* pat occurs in s at position i
OccursAt(s, pat, i) ==
    /\ i >= 1
    /\ i + Len(pat) - 1 <= Len(s)
    /\ SubSeq(s, i, i + Len(pat) - 1) = pat

\* str.find(pat, from): the first position >= from, 0 when there is none
Find(s, pat, from) ==
    LET hits == {i \in from..Len(s) : OccursAt(s, pat, i)}
    IN  IF hits = {} THEN 0 ELSE CHOOSE i \in hits : \A j \in hits : i <= j

\* str.rfind(pat): the last position, 0 when there is none
RFind(s, pat) ==
    LET hits == {i \in 1..Len(s) : OccursAt(s, pat, i)}
    IN  IF hits = {} THEN 0 ELSE CHOOSE i \in hits : \A j \in hits : j <= i

\* pat in s
Contains(s, pat) == Find(s, pat, 1) # 0

\* a local variable: v is evaluated once and F is given its value
Let(v, F(_)) == CHOOSE r \in {F(x) : x \in {v}} : TRUE

\* str.replace(pat, ""): one left-to-right pass over non-overlapping occurrences
RECURSIVE Remove(_, _)
Remove(s, pat) ==
    Let(Find(s, pat, 1), LAMBDA i :
        IF i = 0 THEN s
        ELSE Head_(s, i) \o Remove(Tail_(s, i + Len(pat)), pat))

\* str.replace(pat, rep)
RECURSIVE Replace(_, _, _)
Replace(s, pat, rep) ==
    Let(Find(s, pat, 1), LAMBDA i :
        IF i = 0 THEN s
        ELSE Head_(s, i) \o rep \o Replace(Tail_(s, i + Len(pat)), pat, rep))

RECURSIVE LStrip(_)
LStrip(s) ==
    IF s # <<>> /\ s[1] \in Whitespace THEN LStrip(Tail(s)) ELSE s

RECURSIVE RStrip(_)
RStrip(s) ==
    IF s # <<>> /\ s[Len(s)] \in Whitespace
    THEN RStrip(SubSeq(s, 1, Len(s) - 1)) ELSE s

Strip(s) == LStrip(RStrip(s))

\* re.compile(start .*? end, DOTALL).search(s): <<first, last>> of the leftmost
\* match, <<0, 0>> when there is none
LazySearch(s, start, end) ==
    Let({i \in 1..Len(s) : /\ OccursAt(s, start, i)
                           /\ Find(s, end, i + Len(start)) # 0},
        LAMBDA hits :
            IF hits = {} THEN <<0, 0>>
            ELSE Let(CHOOSE k \in hits : \A j \in hits : k <= j, LAMBDA i :
                    <<i, Find(s, end, i + Len(start)) + Len(end) - 1>>))

\* pattern.sub("", s) for the pattern start .*? end
RECURSIVE LazySub(_, _, _)
LazySub(s, start, end) ==
    Let(LazySearch(s, start, end), LAMBDA m :
        IF m[1] = 0 THEN s
        ELSE Head_(s, m[1]) \o LazySub(Tail_(s, m[2] + 1), start, end))

-----------------------------------------------------------------------------
(* Markers (tool_calls.py, notes.py).                                      *)

MarkerTail == "JSON>>>"
TOOLS_START == <<"<<<TOOL_CALLS_", MarkerTail>>
TOOLS_END == <<"<<<END_TOOL_CALLS_", MarkerTail>>
NOTES_START == <<"<<<NOTES_", MarkerTail>>
NOTES_END == <<"<<<END_NOTES_", MarkerTail>>

\* a tool name is its namespace prefix followed by the rest of the name
DEFAULT_ALLOWED_PREFIXES == {"fs.", "shell.", "http."}

-----------------------------------------------------------------------------
(* JSON values, and json.loads as a table over the documents of the model. *)

JNull == [ty |-> "null"]
JNum == [ty |-> "num"]
JStr(s) == [ty |-> "str", s |-> s]
JList(xs) == [ty |-> "list", items |-> xs]
JObj(f) == [ty |-> "obj", fields |-> f]
NoFields == [k \in {} |-> JNull]

IsStr(v) == v.ty = "str"
IsDict(v) == v.ty = "obj"
IsList(v) == v.ty = "list"
IsNone(v) == v.ty = "null"

\* dict.get(key): None when the key is absent
Get(v, key) == IF key \in DOMAIN v.fields THEN v.fields[key] ELSE JNull

FS_LIST_DIR == <<"fs.", "list_dir">>
HTTP_GET == <<"http.", "get">>
SYSTEM_TIME == <<"system.", "time">>

DOC_ARGS == "{\"path\":\"/sandbox\"}"
DOC_CALLS1 == "[{\"id\":\"t1\",\"tool\":\"fs.list_dir\",\"args\":{\"path\":\".\"}}]"
DOC_CALLS2 == "[{\"id\":\"t1\",\"tool\":\"fs.list_dir\",\"args\":{}},{\"id\":\"t2\",\"tool\":\"http.get\",\"args\":{}}]"
DOC_BARE == "{\"name\":\"fs.list_dir\",\"arguments\":\"{\\\"path\\\":\\\"/sandbox\\\"}\"}"
DOC_BARE_SYS == "{\"name\":\"system.time\",\"arguments\":{}}"
DOC_NOTES == "{\"set_goals\":[\"ship\"],\"add_open_loops\":[\"loop-2\"],\"close_open_loops\":[\"loop-1\"],\"add_constraints\":[\"constraint\"],\"set_episode_summary\":\"summary\"}"
DOC_NOTES_ACT == "{\"add_decisions\":[\"fetch\"],\"actions\":[\"request_permission:net\"]}"

\* a plan whose first call names a tool with an allowed prefix that no registry
\* holds
FS_NOPE == <<"fs.", "nope">>
DOC_CALLS_UNKNOWN == "[{\"id\":\"u1\",\"tool\":\"fs.nope\",\"args\":{}},{\"id\":\"u2\",\"tool\":\"http.get\",\"args\":{}}]"

\* a patch whose only content is the action that grants 'net'
DOC_NOTES_GRANT == "{\"actions\":[\"grant_permission:net\"]}"

\* a bare list whose first entry names the id the second one will be given
DOC_BARE_IDS == "[{\"id\":\"auto-1\",\"name\":\"fs.list_dir\",\"arguments\":{}},{\"name\":\"http.get\",\"arguments\":{}}]"

\* a notes document whose set_goals repeats an entry
DOC_NOTES_DUP == "{\"set_goals\":[\"ship\",\"fix\",\"ship\"]}"

\* n copies of the string s
RECURSIVE Rep(_, _)
Rep(s, n) ==
    IF n = 0 THEN ""
    ELSE IF n % 2 = 1 THEN s \o Rep(s, n - 1)
    ELSE Let(Rep(s, n \div 2), LAMBDA half : half \o half)

\* a summary of 2001 characters, and the notes document that sets it
LONG_SUMMARY == Rep("x", 2001)
DOC_NOTES_LONG == "{\"set_episode_summary\":\"" \o LONG_SUMMARY \o "\"}"

\* the well-formed tool calls {id, tool, args} of the model, and the lists of
\* at most MaxCalls of them
WellFormedCalls ==
    [id : {"t1", "auto-1"},
     tool : {FS_LIST_DIR, HTTP_GET, SYSTEM_TIME},
     args : {NoFields, "path" :> JStr(".")}]

CallLists == UNION {[1..n -> WellFormedCalls] : n \in 0..MaxCalls}

\* json.dumps of a string without special characters
DumpStr(s) == "\"" \o s \o "\""

\* json.dumps of the args dict: {} or {"path": p}
DumpArgs(args) ==
    IF DOMAIN args = {} THEN "{}"
    ELSE "{\"path\": " \o DumpStr(args["path"].s) \o "}"

DumpCall(call) ==
    "{\"id\": " \o DumpStr(call.id)
        \o ", \"tool\": " \o DumpStr(call.tool[1] \o call.tool[2])
        \o ", \"args\": " \o DumpArgs(call.args) \o "}"

\* the items joined by ", "
RECURSIVE DumpItems(_)
DumpItems(calls) ==
    IF calls = <<>> THEN ""
    ELSE IF Len(calls) = 1 THEN DumpCall(calls[1])
    ELSE DumpCall(calls[1]) \o ", " \o DumpItems(Tail(calls))

\* json.dumps(payload) for a list of tool calls, with the default separators
json_dumps(calls) == "[" \o DumpItems(calls) \o "]"

DumpedDocs == {json_dumps(calls) : calls \in CallLists}

\* the fields of a notes patch, and JSON values of several types with their
\* texts
PatchListFields ==
    {"set_goals", "add_open_loops", "close_open_loops", "add_decisions",
     "add_constraints", "add_memory_tags", "actions"}
KnownFields == PatchListFields \cup {"set_episode_summary"}

ValueKinds == {"null", "str", "num", "obj", "list_str", "list_num"}

ValueOf(kind) ==
    CASE kind = "null" -> JNull
      [] kind = "str" -> JStr("s")
      [] kind = "num" -> JNum
      [] kind = "obj" -> JObj(NoFields)
      [] kind = "list_str" -> JList(<<JStr("a")>>)
      [] kind = "list_num" -> JList(<<JNum>>)

ValueText(kind) ==
    CASE kind = "null" -> "null"
      [] kind = "str" -> "\"s\""
      [] kind = "num" -> "7"
      [] kind = "obj" -> "{}"
      [] kind = "list_str" -> "[\"a\"]"
      [] kind = "list_num" -> "[7]"

\* a notes document that gives one field a value of the kind, next to a
\* well-typed add_decisions (or set_goals, when the field is add_decisions)
OtherField(name) == IF name = "add_decisions" THEN "set_goals" ELSE "add_decisions"

NotesDocText(name, kind) ==
    "{\"" \o OtherField(name) \o "\": [\"keep\"], \"" \o name \o "\": "
        \o ValueText(kind) \o "}"

NotesDocValue(name, kind) ==
    JObj((OtherField(name) :> JList(<<JStr("keep")>>)) @@ (name :> ValueOf(kind)))

TypedNotesDocs ==
    {NotesDocText(name, kind) : name \in KnownFields, kind \in ValueKinds}

JsonDocs == {DOC_ARGS, DOC_CALLS1, DOC_CALLS2, DOC_BARE, DOC_BARE_SYS,
             DOC_NOTES, DOC_NOTES_ACT, DOC_NOTES_DUP, DOC_NOTES_LONG,
             DOC_BARE_IDS, DOC_CALLS_UNKNOWN,
             DOC_NOTES_GRANT}
            \cup DumpedDocs \cup TypedNotesDocs

PathArgs(p) == JObj("path" :> JStr(p))

CallObj(id, tool, args) ==
    JObj(("id" :> JStr(id)) @@ ("tool" :> JStr(tool)) @@ ("args" :> args))

JsonOf(doc) ==
    CASE doc = DOC_ARGS -> PathArgs("/sandbox")
      [] doc = DOC_CALLS1 -> JList(<<CallObj("t1", FS_LIST_DIR, PathArgs("."))>>)
      [] doc = DOC_CALLS2 ->
            JList(<<CallObj("t1", FS_LIST_DIR, JObj(NoFields)),
                    CallObj("t2", HTTP_GET, JObj(NoFields))>>)
      [] doc = DOC_CALLS_UNKNOWN ->
            JList(<<CallObj("u1", FS_NOPE, JObj(NoFields)),
                    CallObj("u2", HTTP_GET, JObj(NoFields))>>)
      [] doc = DOC_BARE ->
            JObj(("name" :> JStr(FS_LIST_DIR)) @@ ("arguments" :> JStr(DOC_ARGS)))
      [] doc = DOC_BARE_SYS ->
            JObj(("name" :> JStr(SYSTEM_TIME)) @@ ("arguments" :> JObj(NoFields)))
      [] doc = DOC_NOTES ->
            JObj(("set_goals" :> JList(<<JStr("ship")>>))
                 @@ ("add_open_loops" :> JList(<<JStr("loop-2")>>))
                 @@ ("close_open_loops" :> JList(<<JStr("loop-1")>>))
                 @@ ("add_constraints" :> JList(<<JStr("constraint")>>))
                 @@ ("set_episode_summary" :> JStr("summary")))
      [] doc = DOC_NOTES_ACT ->
            JObj(("add_decisions" :> JList(<<JStr("fetch")>>))
                 @@ ("actions" :> JList(<<JStr(<<"request_permission:", "net">>)>>)))
      [] doc = DOC_NOTES_GRANT ->
            JObj("actions" :> JList(<<JStr(<<"grant_permission:", "net">>)>>))
      [] doc = DOC_NOTES_DUP ->
            JObj("set_goals" :> JList(<<JStr("ship"), JStr("fix"), JStr("ship")>>))
      [] doc = DOC_NOTES_LONG ->
            JObj("set_episode_summary" :> JStr(LONG_SUMMARY))
      [] doc = DOC_BARE_IDS ->
            JList(<<JObj(("id" :> JStr("auto-1")) @@ ("name" :> JStr(FS_LIST_DIR))
                         @@ ("arguments" :> JObj(NoFields))),
                    JObj(("name" :> JStr(HTTP_GET))
                         @@ ("arguments" :> JObj(NoFields)))>>)
      [] doc \in TypedNotesDocs ->
            Let(CHOOSE nk \in KnownFields \X ValueKinds :
                    NotesDocText(nk[1], nk[2]) = doc,
                LAMBDA nk : NotesDocValue(nk[1], nk[2]))
      [] OTHER ->
            Let(CHOOSE calls \in CallLists : json_dumps(calls) = doc,
                LAMBDA calls :
                    JList([i \in 1..Len(calls) |->
                              CallObj(calls[i].id, calls[i].tool,
                                      JObj(calls[i].args))]))

\* json.loads(text): surrounding whitespace is skipped, anything that is not
\* exactly one document raises JSONDecodeError
JsonLoads(text) ==
    LET t == Strip(text)
    IN  IF Len(t) = 1 /\ t[1] \in JsonDocs
        THEN [ok |-> TRUE, value |-> JsonOf(t[1])]
        ELSE [ok |-> FALSE, value |-> JNull]

\* the first character of the text is "[" or "{"
StartsWithBracket(t) == t # <<>> /\ (t[1] \in JsonDocs \/ t[1] = "{...}")

-----------------------------------------------------------------------------
(* runtime/tool_calls.py                                                   *)

extract_block(text, start_marker, end_marker) ==
    Let(Find(text, start_marker, 1), LAMBDA start_index :
    Let(IF start_index = 0 THEN 0 ELSE Find(text, end_marker, start_index),
        LAMBDA end_index :
        IF start_index = 0 \/ end_index = 0
        THEN [found |-> FALSE, payload |-> <<>>, start |-> 0, end |-> 0]
        ELSE [found |-> TRUE,
              payload |-> Strip(SubSeq(text, start_index + Len(start_marker),
                                       end_index - 1)),
              start |-> start_index,
              end |-> end_index + Len(end_marker)]))

ToolCall(id, tool, args) == [id |-> id, tool |-> tool, args |-> args]

coerce_tool_calls(data) ==
    LET items == IF IsDict(data) THEN <<data>>
                 ELSE IF IsList(data) THEN data.items ELSE <<>>
        shaped == IsDict(data)
                    \/ (IsList(data) /\ \A i \in 1..Len(items) : IsDict(items[i]))
        typed == \A i \in 1..Len(items) :
                    /\ IsStr(Get(items[i], "id"))
                    /\ IsStr(Get(items[i], "tool"))
                    /\ IsDict(Get(items[i], "args"))
    IN  IF shaped /\ typed
        THEN [ok |-> TRUE,
              calls |-> [i \in 1..Len(items) |->
                            ToolCall(Get(items[i], "id").s,
                                     Get(items[i], "tool").s,
                                     Get(items[i], "args").fields)]]
        ELSE [ok |-> FALSE, calls |-> <<>>]

is_allowed_tool(name, allowed_tools, allowed_prefixes) ==
    \/ name \in allowed_tools
    \/ \E prefix \in allowed_prefixes : name[1] = prefix

parse_args(value) ==
    IF IsDict(value) THEN [ok |-> TRUE, args |-> value.fields, warning |-> ""]
    ELSE IF IsStr(value)
    THEN Let(JsonLoads(<<value.s>>), LAMBDA parsed :
             IF ~parsed.ok
             THEN [ok |-> FALSE, args |-> NoFields, warning |-> "arguments_json_invalid"]
             ELSE IF ~IsDict(parsed.value)
             THEN [ok |-> FALSE, args |-> NoFields, warning |-> "arguments_not_object"]
             ELSE [ok |-> TRUE, args |-> parsed.value.fields, warning |-> ""])
    ELSE [ok |-> FALSE, args |-> NoFields, warning |-> "arguments_type_invalid"]

AutoIds == <<"auto-1", "auto-2", "auto-3", "auto-4">>

\* one pass of the loop over items; acc = [calls, warnings, formats, auto_index]
LooseStep(item, acc, allowed_tools, allowed_prefixes) ==
    LET tool_key == IF IsStr(Get(item, "tool")) THEN "tool"
                    ELSE IF IsStr(Get(item, "name")) THEN "name" ELSE ""
        tool_value == IF tool_key = "" THEN <<>> ELSE Get(item, tool_key).s
        args_key == IF "args" \in DOMAIN item.fields THEN "args"
                    ELSE IF "arguments" \in DOMAIN item.fields THEN "arguments"
                    ELSE ""
        warn(w) == [acc EXCEPT !.warnings = Append(@, w)]
        fmt(a) == [a EXCEPT !.formats = @ \cup {<<tool_key, args_key>>}]
        call_id == IF IsStr(Get(item, "id")) THEN Get(item, "id").s
                   ELSE AutoIds[acc.auto_index]
    IN  IF tool_key = "" THEN warn("missing_tool")
        ELSE IF args_key = "" THEN warn("missing_arguments")
        ELSE IF ~is_allowed_tool(tool_value, allowed_tools, allowed_prefixes)
        THEN fmt(warn("tool_not_allowed"))
        ELSE Let(parse_args(Get(item, args_key)), LAMBDA args :
                IF ~args.ok THEN fmt(warn(args.warning))
                ELSE [fmt(acc) EXCEPT
                        !.calls = Append(@, ToolCall(call_id, tool_value, args.args)),
                        !.auto_index = IF IsStr(Get(item, "id")) THEN @ ELSE @ + 1])

\* the loop over items, from the i-th on
RECURSIVE LooseLoop(_, _, _, _, _)
LooseLoop(items, i, acc, allowed_tools, allowed_prefixes) ==
    IF i > Len(items) THEN acc
    ELSE Let(LooseStep(items[i], acc, allowed_tools, allowed_prefixes),
             LAMBDA next :
                LooseLoop(items, i + 1, next, allowed_tools, allowed_prefixes))

\* [calls, warnings, coerced]: coerced tells that tool_calls_coerced is emitted
coerce_loose_tool_calls(data, allowed_tools, allowed_prefixes) ==
    IF IsList(data) /\ \E i \in 1..Len(data.items) : ~IsDict(data.items[i])
    THEN [calls |-> <<>>, warnings |-> <<"payload_items_not_objects">>,
          coerced |-> FALSE]
    ELSE IF ~IsDict(data) /\ ~IsList(data)
    THEN [calls |-> <<>>, warnings |-> <<"payload_not_object_or_list">>,
          coerced |-> FALSE]
    ELSE
    Let(LooseLoop(IF IsDict(data) THEN <<data>> ELSE data.items, 1,
                  [calls |-> <<>>, warnings |-> <<>>, formats |-> {},
                   auto_index |-> 1],
                  allowed_tools, allowed_prefixes),
        LAMBDA acc :
            [calls |-> acc.calls, warnings |-> acc.warnings,
             coerced |-> acc.calls # <<>>])

\* SelectSeq for a test that takes the allowlist too
RECURSIVE FilterAllowed(_, _, _)
FilterAllowed(calls, allowed_tools, allowed_prefixes) ==
    IF calls = <<>> THEN <<>>
    ELSE (IF is_allowed_tool(calls[1].tool, allowed_tools, allowed_prefixes)
          THEN <<calls[1]>> ELSE <<>>)
         \o FilterAllowed(Tail(calls), allowed_tools, allowed_prefixes)

\* the result when no call is taken from the text: the text as it is
NoCalls(text, warnings) ==
    [text |-> text, calls |-> <<>>, warnings |-> warnings, coerced |-> FALSE]

\* the branch of extract_tool_calls for a text without a block
extract_loose(text, allowed_tools, allowed_prefixes) ==
    Let(Strip(text), LAMBDA stripped :
        IF ~StartsWithBracket(stripped) THEN NoCalls(text, <<>>)
        ELSE Let(JsonLoads(stripped), LAMBDA loaded :
            IF ~loaded.ok THEN NoCalls(text, <<"payload_json_invalid">>)
            ELSE Let(coerce_loose_tool_calls(loaded.value, allowed_tools,
                                             allowed_prefixes),
                     LAMBDA loose :
                        IF loose.calls = <<>> THEN NoCalls(text, loose.warnings)
                        ELSE [text |-> <<>>, calls |-> loose.calls,
                              warnings |-> loose.warnings, coerced |-> TRUE])))

\* the branch of extract_tool_calls for a text with a block
extract_strict(text, block, allowed_tools, allowed_prefixes) ==
    Let(JsonLoads(block.payload), LAMBDA loaded :
    Let(coerce_tool_calls(loaded.value), LAMBDA strict :
        IF ~loaded.ok \/ ~strict.ok THEN NoCalls(text, <<>>)
        ELSE Let(FilterAllowed(strict.calls, allowed_tools, allowed_prefixes),
                 LAMBDA kept :
                    [text |-> Head_(text, block.start) \o Tail_(text, block.end),
                     calls |-> kept,
                     warnings |-> [i \in 1..(Len(strict.calls) - Len(kept)) |->
                                      "tool_not_allowed"],
                     coerced |-> FALSE])))

\* [text, calls, warnings, coerced]: the returned pair, and the events a tracer
\* would be given
extract_tool_calls_with(text, allowed_tools, allowed_prefixes) ==
    Let(extract_block(text, TOOLS_START, TOOLS_END), LAMBDA block :
        IF ~block.found
        THEN extract_loose(text, allowed_tools, allowed_prefixes)
        ELSE extract_strict(text, block, allowed_tools, allowed_prefixes))

\* extract_tool_calls(text) as run_pipeline calls it: the default allowlist
extract_tool_calls(text) ==
    extract_tool_calls_with(text, {}, DEFAULT_ALLOWED_PREFIXES)

-----------------------------------------------------------------------------
(* runtime/notes.py                                                        *)

NoSummary == [some |-> FALSE, s |-> ""]
SomeSummary(s) == [some |-> TRUE, s |-> s]

NotesPatch(set_goals, add_open_loops, close_open_loops, add_decisions, add_constraints, set_episode_summary, add_memory_tags, actions) ==
    [set_goals |-> set_goals, add_open_loops |-> add_open_loops,
     close_open_loops |-> close_open_loops, add_decisions |-> add_decisions,
     add_constraints |-> add_constraints,
     set_episode_summary |-> set_episode_summary,
     add_memory_tags |-> add_memory_tags, actions |-> actions]

EmptyPatch == NotesPatch(<<>>, <<>>, <<>>, <<>>, <<>>, NoSummary, <<>>, <<>>)

\* [ok, list]: ok is FALSE where the code returns None
ensure_list(value) ==
    IF IsNone(value) THEN [ok |-> TRUE, list |-> <<>>]
    ELSE IF IsList(value) /\ \A i \in 1..Len(value.items) : IsStr(value.items[i])
    THEN [ok |-> TRUE, list |-> [i \in 1..Len(value.items) |-> value.items[i].s]]
    ELSE [ok |-> FALSE, list |-> <<>>]

ensure_str(value) ==
    IF IsNone(value) THEN NoSummary
    ELSE IF IsStr(value) THEN SomeSummary(value.s)
    ELSE NoSummary

coerce_patch(data) ==
    LET set_goals == ensure_list(Get(data, "set_goals"))
        add_open_loops == ensure_list(Get(data, "add_open_loops"))
        close_open_loops == ensure_list(Get(data, "close_open_loops"))
        add_decisions == ensure_list(Get(data, "add_decisions"))
        add_constraints == ensure_list(Get(data, "add_constraints"))
        add_memory_tags == ensure_list(Get(data, "add_memory_tags"))
        actions == ensure_list(Get(data, "actions"))
        set_episode_summary == ensure_str(Get(data, "set_episode_summary"))
    IN  IF \E v \in {set_goals, add_open_loops, close_open_loops, add_decisions,
                     add_constraints, add_memory_tags, actions} : ~v.ok
        THEN [ok |-> FALSE, patch |-> EmptyPatch]
        ELSE [ok |-> TRUE,
              patch |-> NotesPatch(set_goals.list, add_open_loops.list,
                                   close_open_loops.list, add_decisions.list,
                                   add_constraints.list, set_episode_summary,
                                   add_memory_tags.list, actions.list)]

\* the result when the text yields no patch: the text as it is
NoNotes(text) == [text |-> text, some |-> FALSE, patch |-> EmptyPatch]

\* [text, some, patch]: some is FALSE where the code returns no patch
extract_notes(text) ==
    Let(extract_block(text, NOTES_START, NOTES_END), LAMBDA block :
        IF ~block.found THEN NoNotes(text)
        ELSE Let(JsonLoads(block.payload), LAMBDA loaded :
            IF ~loaded.ok THEN NoNotes(text)
            ELSE IF ~IsDict(loaded.value) THEN NoNotes(text)
            ELSE Let(coerce_patch(loaded.value), LAMBDA coerced :
                IF ~coerced.ok THEN NoNotes(text)
                ELSE [text |-> Head_(text, block.start) \o Tail_(text, block.end),
                      some |-> TRUE, patch |-> coerced.patch])))

-----------------------------------------------------------------------------
(* runtime/sanitize.py                                                     *)

BLANK_LINE == <<NL, NL>>

REASONING_PATTERNS ==
    << <<"<think>", "</think>">>,
       <<"<<<THOUGHTS>>>", "<<<END_THOUGHTS>>>">>,
       <<"=== REASONING ===", "=== END REASONING ===">> >>

SCAFFOLD_HEADERS ==
    ("HISTORY:" :> "HISTORY") @@ ("HISTORY_JSON:" :> "HISTORY")
    @@ ("STATE:" :> "STATE") @@ ("UPSTREAM:" :> "UPSTREAM")
    @@ ("USER:" :> "USER") @@ ("TOOL_RESULTS:" :> "TOOL_RESULTS")
    @@ ("reflection:" :> "ROLE_TRANSCRIPT") @@ ("planner:" :> "ROLE_TRANSCRIPT")
    @@ ("critic:" :> "ROLE_TRANSCRIPT") @@ ("assistant:" :> "ROLE_TRANSCRIPT")

RETRIEVED_START == <<"=== RETRIEVED_MEMORY ===">>
RETRIEVED_END == <<"=== END_RETRIEVED_MEMORY ===">>
RETRIEVAL_START == <<"=== RETRIEVAL ===">>
RETRIEVAL_END == <<"=== END RETRIEVAL ===">>

\* f"<<<SPECTATOR_BLOCK_{idx}>>>" for the block counts the model's texts reach
Placeholders == <<"<<<SPECTATOR_BLOCK_0>>>", "<<<SPECTATOR_BLOCK_1>>>",
                 "<<<SPECTATOR_BLOCK_2>>>", "<<<SPECTATOR_BLOCK_3>>>",
                 "<<<SPECTATOR_BLOCK_4>>>", "<<<SPECTATOR_BLOCK_5>>>",
                 "<<<SPECTATOR_BLOCK_6>>>", "<<<SPECTATOR_BLOCK_7>>>">>

\* list.append(label) unless the label is in the list
AddLabel(removed, label) ==
    IF \E i \in 1..Len(removed) : removed[i] = label THEN removed
    ELSE Append(removed, label)

\* search of the alternation (s1 .*? e1 | s2 .*? e2): the leftmost match
LazySearch2(s, s1, e1, s2, e2) ==
    Let(LazySearch(s, s1, e1), LAMBDA m1 :
    Let(LazySearch(s, s2, e2), LAMBDA m2 :
        IF m1[1] = 0 THEN m2
        ELSE IF m2[1] = 0 THEN m1
        ELSE IF m1[1] <= m2[1] THEN m1 ELSE m2))

RECURSIVE LazySub2(_, _, _, _, _)
LazySub2(s, s1, e1, s2, e2) ==
    Let(LazySearch2(s, s1, e1, s2, e2), LAMBDA m :
        IF m[1] = 0 THEN s
        ELSE Head_(s, m[1]) \o LazySub2(Tail_(s, m[2] + 1), s1, e1, s2, e2))

RECURSIVE StripReasoningFrom(_, _)
StripReasoningFrom(text, k) ==
    IF k > Len(REASONING_PATTERNS) THEN text
    ELSE StripReasoningFrom(
            LazySub(text, <<REASONING_PATTERNS[k][1]>>, <<REASONING_PATTERNS[k][2]>>),
            k + 1)

strip_reasoning_wrappers(text) == StripReasoningFrom(text, 1)

\* the scaffold header the text starts with, "" when there is none
HeaderAt(t) ==
    IF t # <<>> /\ t[1] \in DOMAIN SCAFFOLD_HEADERS THEN t[1] ELSE ""

\* one pass of the loop over the stripped text: [done, text, removed]
StripLeadingStep(stripped, removed) ==
    LET retrieval == OccursAt(stripped, RETRIEVAL_START, 1)
        retrieved == OccursAt(stripped, RETRIEVED_START, 1)
        end_marker == IF retrieval THEN RETRIEVAL_END ELSE RETRIEVED_END
        end_index == Find(stripped, end_marker, 1)
        cut_index == IF end_index # 0 THEN end_index + Len(end_marker)
                     ELSE Len(stripped) + 1
        header == HeaderAt(stripped)
        block_end == Find(stripped, BLANK_LINE, 1)
    IN  IF retrieval \/ retrieved
        THEN [done |-> FALSE, text |-> Tail_(stripped, cut_index),
              removed |-> AddLabel(removed, "RETRIEVED_MEMORY")]
        ELSE IF header # ""
        THEN [done |-> FALSE,
              text |-> IF block_end # 0 THEN Tail_(stripped, block_end + 2)
                       ELSE <<>>,
              removed |-> AddLabel(removed, SCAFFOLD_HEADERS[header])]
        ELSE [done |-> TRUE, text |-> stripped, removed |-> removed]

RECURSIVE StripLeadingLoop(_, _)
StripLeadingLoop(working, removed) ==
    Let(LStrip(working), LAMBDA stripped :
        IF stripped = <<>> THEN [text |-> <<>>, removed |-> removed]
        ELSE Let(StripLeadingStep(stripped, removed), LAMBDA step :
            IF step.done THEN [text |-> working, removed |-> removed]
            ELSE StripLeadingLoop(step.text, step.removed)))

strip_leading_scaffolding(text) == StripLeadingLoop(text, <<>>)

EndsWith(s, pat) == OccursAt(s, pat, Len(s) - Len(pat) + 1)

\* one pass of the loop over the stripped text: [done, text, removed]
StripTrailingStep(stripped, removed) ==
    LET retrieval == EndsWith(stripped, RETRIEVAL_END)
        retrieved == EndsWith(stripped, RETRIEVED_END)
        start_marker == IF retrieval THEN RETRIEVAL_START ELSE RETRIEVED_START
        start_index == RFind(stripped, start_marker)
        last_break == RFind(stripped, BLANK_LINE)
        last_block == IF last_break = 0 THEN stripped
                      ELSE Tail_(stripped, last_break + 2)
        prefix == IF last_break = 0 THEN <<>> ELSE Head_(stripped, last_break)
        header == HeaderAt(LStrip(last_block))
    IN  IF (retrieval \/ retrieved) /\ start_index # 0
        THEN [done |-> FALSE, text |-> Head_(stripped, start_index),
              removed |-> AddLabel(removed, "RETRIEVED_MEMORY")]
        ELSE IF header # ""
        THEN [done |-> FALSE, text |-> prefix,
              removed |-> AddLabel(removed, SCAFFOLD_HEADERS[header])]
        ELSE [done |-> TRUE, text |-> stripped, removed |-> removed]

RECURSIVE StripTrailingLoop(_, _)
StripTrailingLoop(working, removed) ==
    Let(RStrip(working), LAMBDA stripped :
        IF stripped = <<>> THEN [text |-> <<>>, removed |-> removed]
        ELSE Let(StripTrailingStep(stripped, removed), LAMBDA step :
            IF step.done THEN [text |-> working, removed |-> removed]
            ELSE StripTrailingLoop(step.text, step.removed)))

strip_trailing_scaffolding(text) == StripTrailingLoop(text, <<>>)

DanglingOrder == <<TOOLS_START, TOOLS_END, NOTES_START, NOTES_END>>

RECURSIVE StripDanglingFrom(_, _)
StripDanglingFrom(acc, k) ==
    IF k > Len(DanglingOrder) THEN acc
    ELSE StripDanglingFrom(
            IF Contains(acc.text, DanglingOrder[k])
            THEN [text |-> Remove(acc.text, DanglingOrder[k]), removed |-> TRUE]
            ELSE acc,
            k + 1)

\* [text, removed]
strip_dangling_markers(text) ==
    StripDanglingFrom([text |-> text, removed |-> FALSE], 1)

\* pattern.sub("", text) when pattern.search(text), with the label it adds
StripBlocks(acc, start, end, label) ==
    IF LazySearch(acc.text, start, end)[1] # 0
    THEN [text |-> LazySub(acc.text, start, end),
          removed |-> Append(acc.removed, label)]
    ELSE acc

\* [text, removed]
strip_tool_notes_blocks(text) ==
    Let(StripBlocks([text |-> text, removed |-> <<>>], TOOLS_START, TOOLS_END,
                    "TOOL_BLOCK_STRIPPED"), LAMBDA tools :
    Let(StripBlocks(tools, NOTES_START, NOTES_END, "NOTES_BLOCK_STRIPPED"),
        LAMBDA notes :
    Let(strip_dangling_markers(notes.text), LAMBDA d :
        [text |-> d.text,
         removed |-> IF d.removed THEN Append(notes.removed, "MARKER_POLLUTION")
                     ELSE notes.removed])))

\* [text, removed]
strip_retrieval_blocks(text) ==
    IF LazySearch2(text, RETRIEVED_START, RETRIEVED_END,
                   RETRIEVAL_START, RETRIEVAL_END)[1] # 0
    THEN [text |-> LazySub2(text, RETRIEVED_START, RETRIEVED_END,
                            RETRIEVAL_START, RETRIEVAL_END),
          removed |-> TRUE]
    ELSE [text |-> text, removed |-> FALSE]

\* the protected blocks of the text, in order: finditer of _PROTECTED_PATTERN
RECURSIVE ProtectedBlocks(_)
ProtectedBlocks(text) ==
    Let(LazySearch2(text, NOTES_START, NOTES_END, TOOLS_START, TOOLS_END),
        LAMBDA m :
            IF m[1] = 0 THEN <<>>
            ELSE <<SubSeq(text, m[1], m[2])>>
                 \o ProtectedBlocks(Tail_(text, m[2] + 1)))

\* the text with the idx-th and later protected blocks replaced by placeholders
RECURSIVE Protect(_, _)
Protect(text, idx) ==
    Let(LazySearch2(text, NOTES_START, NOTES_END, TOOLS_START, TOOLS_END),
        LAMBDA m :
            IF m[1] = 0 THEN text
            ELSE Head_(text, m[1]) \o <<Placeholders[idx + 1]>>
                 \o Protect(Tail_(text, m[2] + 1), idx + 1))

\* for placeholder, original in placeholders.items(): replace
RECURSIVE Restore(_, _, _)
Restore(text, blocks, idx) ==
    IF idx >= Len(blocks) THEN text
    ELSE Restore(Replace(text, <<Placeholders[idx + 1]>>, blocks[idx + 1]),
                 blocks, idx + 1)

RECURSIVE AddLabels(_, _)
AddLabels(removed, labels) ==
    IF labels = <<>> THEN removed
    ELSE AddLabels(AddLabel(removed, labels[1]), Tail(labels))

ELLIPSIS == <<"...">>

\* the removed list of the report, built from what each pass removed
RemovedLabels(leading, trailing, retrieval_removed, stripped_markers, block) ==
    Let(AddLabels(AddLabels(<<>>, leading), trailing), LAMBDA r1 :
    Let(IF retrieval_removed THEN AddLabel(r1, "RETRIEVED_MEMORY") ELSE r1,
        LAMBDA r2 :
    Let(IF stripped_markers THEN AddLabel(r2, "MARKER_POLLUTION") ELSE r2,
        LAMBDA r3 :
        AddLabels(r3, block))))

\* [text, removed, empty]
sanitize_visible_text_with_report(text) ==
    IF text = <<>> THEN [text |-> text, removed |-> <<>>, empty |-> FALSE]
    ELSE
    Let(ProtectedBlocks(text), LAMBDA blocks :
    Let(strip_reasoning_wrappers(Protect(text, 0)), LAMBDA reasoned :
    Let(strip_leading_scaffolding(reasoned), LAMBDA leading :
    Let(strip_trailing_scaffolding(leading.text), LAMBDA trailing :
    Let(strip_retrieval_blocks(trailing.text), LAMBDA retrieval :
    Let(strip_dangling_markers(retrieval.text), LAMBDA dangling :
    Let(strip_tool_notes_blocks(Restore(dangling.text, blocks, 0)), LAMBDA block :
    Let(RemovedLabels(leading.removed, trailing.removed, retrieval.removed,
                      dangling.removed, block.removed), LAMBDA removed :
        IF Strip(block.text) = <<>>
        THEN [text |-> ELLIPSIS, removed |-> removed, empty |-> TRUE]
        ELSE [text |-> block.text, removed |-> removed, empty |-> FALSE]))))))))

-----------------------------------------------------------------------------
(* core/types.py                                                           *)

State(goals, open_loops, decisions, constraints, episode_summary, memory_tags, memory_refs, capabilities_granted, capabilities_pending) ==
    [goals |-> goals, open_loops |-> open_loops, decisions |-> decisions,
     constraints |-> constraints, episode_summary |-> episode_summary,
     memory_tags |-> memory_tags, memory_refs |-> memory_refs,
     capabilities_granted |-> capabilities_granted,
     capabilities_pending |-> capabilities_pending]

\* State(): every field at its default
FreshState == State(<<>>, <<>>, <<>>, <<>>, "", <<>>, <<>>, <<>>, <<>>)

\* value in items
In(items, value) == \E i \in 1..Len(items) : items[i] = value

\* the set of the entries of a list
Elems(items) == {items[i] : i \in 1..Len(items)}

-----------------------------------------------------------------------------
(* runtime/capabilities.py                                                 *)

REQUEST_PREFIX == "request_permission:"
GRANT_PREFIX == "grant_permission:"

remove_value(items, value) == SelectSeq(items, LAMBDA item : item # value)

normalize_capabilities(st) ==
    IF Elems(st.capabilities_granted) = {} THEN st
    ELSE [st EXCEPT !.capabilities_pending =
            SelectSeq(@, LAMBDA cap : cap \notin Elems(st.capabilities_granted))]

\* each operation gives [state, changed]: the state it leaves and what it returns
request_permission(st, cap) ==
    IF In(st.capabilities_granted, cap) THEN [state |-> st, changed |-> FALSE]
    ELSE IF In(st.capabilities_pending, cap) THEN [state |-> st, changed |-> FALSE]
    ELSE [state |-> [st EXCEPT !.capabilities_pending = Append(@, cap)],
          changed |-> TRUE]

\* grant_permission with the removal from pending left out
grant_permission_keeps_pending(st, cap) ==
    IF ~In(st.capabilities_granted, cap)
    THEN [state |-> [st EXCEPT !.capabilities_granted = Append(@, cap)],
          changed |-> TRUE]
    ELSE [state |-> st, changed |-> FALSE]

\* grant_permission with the membership test left out
grant_permission_appends(st, cap) ==
    [state |-> [st EXCEPT !.capabilities_granted = Append(@, cap),
                          !.capabilities_pending = remove_value(@, cap)],
     changed |-> TRUE]

grant_permission(st, cap) ==
    LET added == ~In(st.capabilities_granted, cap)
        s1 == IF added
              THEN [st EXCEPT !.capabilities_granted = Append(@, cap)] ELSE st
        pending == In(s1.capabilities_pending, cap)
        s2 == IF pending
              THEN [s1 EXCEPT !.capabilities_pending = remove_value(@, cap)]
              ELSE s1
    IN  [state |-> s2, changed |-> added \/ pending]

revoke_permission(st, cap) ==
    IF ~In(st.capabilities_granted, cap) THEN [state |-> st, changed |-> FALSE]
    ELSE [state |-> [st EXCEPT !.capabilities_granted = remove_value(@, cap)],
          changed |-> TRUE]

clear_pending(st) ==
    IF st.capabilities_pending = <<>> THEN [state |-> st, changed |-> FALSE]
    ELSE [state |-> [st EXCEPT !.capabilities_pending = <<>>], changed |-> TRUE]

\* an action string is its prefix chunk followed by the capability, when any
StartsWith(action, prefix) == action # <<>> /\ action[1] = prefix

\* action[len(prefix):]
ActionCap(action) == IF Len(action) > 1 THEN action[2] ELSE ""

\* the loop over actions; acc = [state, applied, ignored]
RECURSIVE ApplyActionsLoop(_, _)
ApplyActionsLoop(actions, acc) ==
    IF actions = <<>> THEN acc
    ELSE
    LET action == actions[1]
        cap == ActionCap(action)
        ignore(reason) ==
            [acc EXCEPT !.ignored = Append(@, [action |-> action, reason |-> reason])]
        done(r) ==
            [acc EXCEPT !.state = r.state,
                        !.applied = IF r.changed THEN Append(@, action) ELSE @]
        next ==
            IF StartsWith(action, REQUEST_PREFIX)
            THEN IF cap = "" THEN ignore("empty_capability")
                 ELSE done(request_permission(acc.state, cap))
            ELSE IF StartsWith(action, GRANT_PREFIX)
            THEN IF cap = "" THEN ignore("empty_capability")
                 ELSE done(grant_permission(acc.state, cap))
            ELSE ignore("unknown_action")
    IN  ApplyActionsLoop(Tail(actions), next)

\* [state, before, after, applied, ignored]
apply_permission_actions(st, actions) ==
    LET acc == ApplyActionsLoop(actions,
                                [state |-> st, applied |-> <<>>, ignored |-> <<>>])
        final == normalize_capabilities(acc.state)
    IN  [state |-> final,
         before |-> [granted |-> st.capabilities_granted,
                     pending |-> st.capabilities_pending],
         after |-> [granted |-> final.capabilities_granted,
                    pending |-> final.capabilities_pending],
         applied |-> acc.applied,
         ignored |-> acc.ignored]

-----------------------------------------------------------------------------
(* runtime/condense.py                                                     *)

CondensePolicy ==
    [max_goals |-> 32, max_open_loops |-> 32, max_decisions |-> 32,
     max_constraints |-> 32, max_memory_tags |-> 32,
     max_upstream_chars_per_role |-> 1500, max_upstream_total_chars |-> 4000]

RECURSIVE DedupeLoop(_, _)
DedupeLoop(items, deduped) ==
    IF items = <<>> THEN deduped
    ELSE DedupeLoop(Tail(items),
                    IF In(deduped, items[1]) THEN deduped
                    ELSE Append(deduped, items[1]))

\* the list returned as it is, repeated entries included
keep_duplicates(items) == items

dedupe_preserve_order(items) == DedupeLoop(items, <<>>)

cap_tail(items, max_n) ==
    IF max_n < 0 THEN <<>>
    ELSE IF Len(items) <= max_n THEN items
    ELSE IF max_n = 0 THEN <<>>
    ELSE SubSeq(items, Len(items) - max_n + 1, Len(items))

condense_list(items, max_items) == cap_tail(dedupe_preserve_order(items), max_items)

\* [state, report]
condense_state(st, policy) ==
    LET after == [st EXCEPT
                    !.goals = condense_list(@, policy.max_goals),
                    !.open_loops = condense_list(@, policy.max_open_loops),
                    !.decisions = condense_list(@, policy.max_decisions),
                    !.constraints = condense_list(@, policy.max_constraints),
                    !.memory_tags = condense_list(@, policy.max_memory_tags)]
        report == [goals_removed |-> Len(st.goals) - Len(after.goals),
                   open_loops_removed |-> Len(st.open_loops) - Len(after.open_loops),
                   decisions_removed |-> Len(st.decisions) - Len(after.decisions),
                   constraints_removed |-> Len(st.constraints) - Len(after.constraints),
                   memory_tags_removed |-> Len(st.memory_tags) - Len(after.memory_tags)]
    IN  [state |-> after, report |-> report]

\* CondenseReport.trimmed
Trimmed(report) ==
    \/ report.goals_removed # 0
    \/ report.open_loops_removed # 0
    \/ report.decisions_removed # 0
    \/ report.constraints_removed # 0
    \/ report.memory_tags_removed # 0

-----------------------------------------------------------------------------
(* core/types.py: Checkpoint, ChatMessage; runtime/checkpoints.py          *)

\* the session the model follows
SESSION == "session-1"

ChatMessage(role, content) == [role |-> role, content |-> content]

\* a Checkpoint, but for its state, which the variable state holds
Checkpoint(session_id, revision, updated_ts, recent_messages, trace_tail) ==
    [session_id |-> session_id, revision |-> revision, updated_ts |-> updated_ts,
     recent_messages |-> recent_messages, trace_tail |-> trace_tail]

\* JSON numbers and booleans with their values
JInt(n) == [ty |-> "int", n |-> n]
JFloat(x) == [ty |-> "float", x |-> x]
JBool(b) == [ty |-> "bool", b |-> b]

\* isinstance(v, int): bool is a subclass of int
IsInt(v) == v.ty \in {"int", "bool"}
\* isinstance(v, (float, int))
IsNumber(v) == v.ty \in {"float", "int", "bool"}
\* the number a JSON number or boolean is in Python: True == 1, False == 0
NumberOf(v) ==
    CASE v.ty = "int" -> v.n
      [] v.ty = "float" -> v.x
      [] v.ty = "bool" -> IF v.b THEN 1 ELSE 0

\* a file of the checkpoint directory: absent, or a text that is one whole
\* JSON document, or the text of a document cut before its end, or no text
Absent == [kind |-> "absent"]
FileOf(payload) == [kind |-> "json", payload |-> payload]
PartOf(payload) == [kind |-> "partial", payload |-> payload]
EmptyFile == [kind |-> "empty"]

StrList(items) == JList([i \in 1..Len(items) |-> JStr(items[i])])

\* asdict(state)
asdict_state(st) ==
    JObj(("goals" :> StrList(st.goals))
         @@ ("open_loops" :> StrList(st.open_loops))
         @@ ("decisions" :> StrList(st.decisions))
         @@ ("constraints" :> StrList(st.constraints))
         @@ ("episode_summary" :> JStr(st.episode_summary))
         @@ ("memory_tags" :> StrList(st.memory_tags))
         @@ ("memory_refs" :> StrList(st.memory_refs))
         @@ ("capabilities_granted" :> StrList(st.capabilities_granted))
         @@ ("capabilities_pending" :> StrList(st.capabilities_pending)))

asdict_message(message) ==
    JObj(("role" :> JStr(message.role)) @@ ("content" :> JStr(message.content)))

\* asdict(checkpoint) taken before the revision was raised
asdict_before_increment(ck, st) ==
    JObj(("session_id" :> JStr(ck.session_id))
         @@ ("revision" :> JInt(ck.revision - 1))
         @@ ("updated_ts" :> JFloat(ck.updated_ts))
         @@ ("state" :> asdict_state(st))
         @@ ("recent_messages" :>
                JList([i \in 1..Len(ck.recent_messages) |->
                          asdict_message(ck.recent_messages[i])]))
         @@ ("trace_tail" :> StrList(ck.trace_tail)))

\* asdict(checkpoint), the payload save_checkpoint writes
asdict(ck, st) ==
    JObj(("session_id" :> JStr(ck.session_id))
         @@ ("revision" :> JInt(ck.revision))
         @@ ("updated_ts" :> JFloat(ck.updated_ts))
         @@ ("state" :> asdict_state(st))
         @@ ("recent_messages" :>
                JList([i \in 1..Len(ck.recent_messages) |->
                          asdict_message(ck.recent_messages[i])]))
         @@ ("trace_tail" :> StrList(ck.trace_tail)))

\* what a function of checkpoints.py gives: a value, or the exception raised
Raised(error) == [ok |-> FALSE, error |-> error]
Returned(v) == [ok |-> TRUE, v |-> v]

AllStr(value) == \A i \in 1..Len(value.items) : IsStr(value.items[i])
StrItems(value) == [i \in 1..Len(value.items) |-> value.items[i].s]

\* _ensure_list_of_str
ensure_list_of_str(value) ==
    IF IsNone(value) THEN Returned(<<>>)
    ELSE IF IsList(value) /\ AllStr(value) THEN Returned(StrItems(value))
    ELSE Raised("ValueError")

\* _ensure_str of checkpoints.py
ensure_state_str(value) ==
    IF IsNone(value) THEN Returned("")
    ELSE IF IsStr(value) THEN Returned(value.s)
    ELSE Raised("ValueError")

ListFields ==
    {"goals", "open_loops", "decisions", "constraints", "memory_tags",
     "memory_refs", "capabilities_granted", "capabilities_pending"}

\* _coerce_state
coerce_state(payload) ==
    IF ~IsDict(payload) THEN Raised("ValueError")
    ELSE IF \E k \in ListFields : ~ensure_list_of_str(Get(payload, k)).ok
    THEN Raised("ValueError")
    ELSE IF ~ensure_state_str(Get(payload, "episode_summary")).ok
    THEN Raised("ValueError")
    ELSE Returned(State(ensure_list_of_str(Get(payload, "goals")).v,
                        ensure_list_of_str(Get(payload, "open_loops")).v,
                        ensure_list_of_str(Get(payload, "decisions")).v,
                        ensure_list_of_str(Get(payload, "constraints")).v,
                        ensure_state_str(Get(payload, "episode_summary")).v,
                        ensure_list_of_str(Get(payload, "memory_tags")).v,
                        ensure_list_of_str(Get(payload, "memory_refs")).v,
                        ensure_list_of_str(Get(payload, "capabilities_granted")).v,
                        ensure_list_of_str(Get(payload, "capabilities_pending")).v))

IsMessage(item) ==
    /\ IsDict(item)
    /\ IsStr(Get(item, "role"))
    /\ IsStr(Get(item, "content"))

\* _coerce_recent_messages
coerce_recent_messages(payload) ==
    IF IsNone(payload) THEN Returned(<<>>)
    ELSE IF ~IsList(payload) THEN Raised("ValueError")
    ELSE IF \E i \in 1..Len(payload.items) : ~IsMessage(payload.items[i])
    THEN Raised("ValueError")
    ELSE Returned([i \in 1..Len(payload.items) |->
                      ChatMessage(Get(payload.items[i], "role").s,
                                  Get(payload.items[i], "content").s)])

\* _coerce_trace_tail
coerce_trace_tail(payload) ==
    IF IsNone(payload) THEN Returned(<<>>)
    ELSE IF IsList(payload) /\ AllStr(payload) THEN Returned(StrItems(payload))
    ELSE Raised("ValueError")

\* load_latest on the file at _checkpoint_path: None when there is no file,
\* else the Checkpoint and its state, or the exception raised
load_latest(file) ==
    IF file.kind = "absent" THEN [ok |-> TRUE, found |-> FALSE]
    ELSE IF file.kind # "json" THEN Raised("JSONDecodeError")
    ELSE IF ~IsDict(file.payload) THEN Raised("ValueError")
    ELSE IF ~IsStr(Get(file.payload, "session_id")) THEN Raised("ValueError")
    ELSE IF ~IsInt(Get(file.payload, "revision")) THEN Raised("ValueError")
    ELSE IF ~IsNumber(Get(file.payload, "updated_ts")) THEN Raised("ValueError")
    ELSE IF ~coerce_state(Get(file.payload, "state")).ok THEN Raised("ValueError")
    ELSE IF ~coerce_recent_messages(Get(file.payload, "recent_messages")).ok
    THEN Raised("ValueError")
    ELSE IF ~coerce_trace_tail(Get(file.payload, "trace_tail")).ok
    THEN Raised("ValueError")
    ELSE [ok |-> TRUE, found |-> TRUE,
          checkpoint |->
             Checkpoint(Get(file.payload, "session_id").s,
                        NumberOf(Get(file.payload, "revision")),
                        NumberOf(Get(file.payload, "updated_ts")),
                        coerce_recent_messages(Get(file.payload, "recent_messages")).v,
                        coerce_trace_tail(Get(file.payload, "trace_tail")).v),
          state |-> coerce_state(Get(file.payload, "state")).v]

\* load_or_create: the checkpoint read, or a new one at revision 0
load_or_create(file, now) ==
    IF load_latest(file).ok /\ ~load_latest(file).found
    THEN [ok |-> TRUE, found |-> TRUE,
          checkpoint |-> Checkpoint(SESSION, 0, now, <<>>, <<>>),
          state |-> FreshState]
    ELSE load_latest(file)

-----------------------------------------------------------------------------
(* runtime/pipeline.py and runtime/controller.py                           *)

\* the roles run_turn builds, in order
DefaultRoles == <<"reflection", "planner", "critic", "governor">>

\* the tools build_default_registry registers
RegisteredTools ==
    {<<"fs.", "read_text">>, <<"fs.", "list_dir">>, <<"fs.", "write_text">>,
     <<"shell.", "exec">>, <<"http.", "get">>}

RECURSIVE extend_unique(_, _)
extend_unique(target, values) ==
    IF values = <<>> THEN target
    ELSE extend_unique(IF In(target, values[1]) THEN target
                       ELSE Append(target, values[1]),
                       Tail(values))

apply_notes_patch(st, patch) ==
    LET s1 == IF patch.set_goals # <<>>
              THEN [st EXCEPT !.goals = patch.set_goals] ELSE st
        s2 == IF patch.add_open_loops # <<>>
              THEN [s1 EXCEPT !.open_loops = extend_unique(@, patch.add_open_loops)]
              ELSE s1
        s3 == IF patch.close_open_loops # <<>>
              THEN [s2 EXCEPT !.open_loops =
                      SelectSeq(@, LAMBDA loop : ~In(patch.close_open_loops, loop))]
              ELSE s2
        s4 == IF patch.add_decisions # <<>>
              THEN [s3 EXCEPT !.decisions = extend_unique(@, patch.add_decisions)]
              ELSE s3
        s5 == IF patch.add_constraints # <<>>
              THEN [s4 EXCEPT !.constraints = extend_unique(@, patch.add_constraints)]
              ELSE s4
        s6 == IF patch.set_episode_summary.some
              THEN [s5 EXCEPT !.episode_summary = patch.set_episode_summary.s]
              ELSE s5
    IN  IF patch.add_memory_tags # <<>>
        THEN [s6 EXCEPT !.memory_tags = extend_unique(@, patch.add_memory_tags)]
        ELSE s6

\* a TraceEvent: kind and the fields of data the model reads
Event(kind, role) ==
    [kind |-> kind, role |-> role, id |-> "", tool |-> <<>>, calls |-> <<>>,
     ignored |-> FALSE, ok |-> FALSE, text |-> <<>>, applied |-> <<>>]

CallIds(calls) == [i \in 1..Len(calls) |-> calls[i].id]

\* the tool_plan event of a plan that is executed
PlanEvent(role, calls) ==
    [Event("tool_plan", role) EXCEPT !.calls = CallIds(calls)]

\* the second response's tool_plan event with the ignored flag left out
IgnoredPlanEvent_unflagged(role, calls) == PlanEvent(role, calls)

\* the tool_plan event of the calls found in the second response
IgnoredPlanEvent(role, calls) ==
    [Event("tool_plan", role) EXCEPT !.calls = CallIds(calls), !.ignored = TRUE]

\* the condition of the tool round with the test of the role's name left out
wants_tool_round_any_role(role, max_tool_rounds) == max_tool_rounds > 1

\* role.name == "governor" and max_tool_rounds > 1
wants_tool_round(role, max_tool_rounds) ==
    role = "governor" /\ max_tool_rounds > 1

\* ToolExecutor.execute_calls([call], state)[0]; handler_ok tells whether the
\* registered handler returned or raised
\* an executor whose "unknown tool" result does not carry the call's id
execute_call_anonymous(call, handler_ok) ==
    IF call.tool \notin RegisteredTools
    THEN [id |-> "", tool |-> call.tool, ok |-> FALSE, error |-> "unknown tool"]
    ELSE IF handler_ok
    THEN [id |-> call.id, tool |-> call.tool, ok |-> TRUE, error |-> ""]
    ELSE [id |-> call.id, tool |-> call.tool, ok |-> FALSE, error |-> "handler raised"]

execute_call(call, handler_ok) ==
    IF call.tool \notin RegisteredTools
    THEN [id |-> call.id, tool |-> call.tool, ok |-> FALSE, error |-> "unknown tool"]
    ELSE IF handler_ok
    THEN [id |-> call.id, tool |-> call.tool, ok |-> TRUE, error |-> ""]
    ELSE [id |-> call.id, tool |-> call.tool, ok |-> FALSE, error |-> "handler raised"]

Role == DefaultRoles[roleIdx]

\* _complete up to the call of the backend: llm_req is written.  The texts of
\* the model are far shorter than max_upstream_chars_per_role, so that
\* condense_upstream returns the results as they are and writes no event.
LlmReq ==
    /\ pc = "llm_req"
    /\ trace' = Append(trace, Event("llm_req", Role))
    /\ roleStartState' = state
    /\ pc' = "llm_wait"
    /\ UNCHANGED <<state, roleIdx, response, finalResponse, toolCalls, toolResults,
                   results, finalText, hasExecutor, maxToolRounds, menu, executed,
                   capOp>>
    /\ UNCHANGED <<stream, env, sessionVars>>

\* the backend returns completion: llm_done is written, and for the governor
\* the tool calls of the response are parsed and planned
LlmDone(completion) ==
    /\ pc = "llm_wait"
    /\ \E done \in {[Event("llm_done", Role) EXCEPT !.text = completion]} :
       \E parsed \in {extract_tool_calls(completion)} :
          IF wants_tool_round(Role, maxToolRounds)
          THEN IF parsed.calls # <<>> /\ hasExecutor
               THEN /\ trace' = trace \o <<done, PlanEvent(Role, parsed.calls)>>
                    /\ toolCalls' = parsed.calls
                    /\ toolResults' = <<>>
                    /\ finalResponse' = completion
                    /\ pc' = "exec"
               ELSE /\ trace' = Append(trace, done)
                    /\ finalResponse' = parsed.text
                    /\ pc' = "finish"
                    /\ UNCHANGED <<toolCalls, toolResults>>
          ELSE /\ trace' = Append(trace, done)
               /\ finalResponse' = completion
               /\ pc' = "finish"
               /\ UNCHANGED <<toolCalls, toolResults>>
    /\ response' = completion
    /\ UNCHANGED <<state, roleIdx, results, finalText, hasExecutor, maxToolRounds,
                   menu, roleStartState, executed, capOp>>
    /\ UNCHANGED <<stream, env, sessionVars>>

\* the loop over tool_calls, lines 317-325: tool_start is written for the next
\* call of the plan
ToolStart ==
    /\ pc = "exec"
    /\ Len(toolResults) < Len(toolCalls)
    /\ \E call \in {toolCalls[Len(toolResults) + 1]} :
          trace' = Append(trace, [Event("tool_start", Role) EXCEPT
                                     !.id = call.id, !.tool = call.tool])
    /\ pc' = "tool"
    /\ UNCHANGED <<state, roleIdx, response, finalResponse, toolCalls,
                   toolResults, results, finalText, hasExecutor, maxToolRounds,
                   menu, roleStartState, executed, capOp>>
    /\ UNCHANGED <<stream, env, sessionVars>>

\* a loop that puts the tool_done event in front of the call's tool_start
ToolDone_logged_first(handler_ok) ==
    /\ pc = "tool"
    /\ \E call \in {toolCalls[Len(toolResults) + 1]} :
       \E result \in {execute_call(call, handler_ok)} :
          /\ trace' = SubSeq(trace, 1, Len(trace) - 1)
                        \o <<[Event("tool_done", Role) EXCEPT
                                 !.id = result.id, !.tool = result.tool,
                                 !.ok = result.ok],
                             trace[Len(trace)]>>
          /\ toolResults' = Append(toolResults, result)
          /\ executed' = Append(executed, [role |-> Role, id |-> call.id])
    /\ pc' = "exec"
    /\ UNCHANGED <<state, roleIdx, response, finalResponse, toolCalls, results,
                   finalText, hasExecutor, maxToolRounds, menu, roleStartState,
                   capOp>>
    /\ UNCHANGED <<stream, env, sessionVars>>

\* lines 326-344: the executor runs the call and tool_done is written
ToolDone(handler_ok) ==
    /\ pc = "tool"
    /\ \E call \in {toolCalls[Len(toolResults) + 1]} :
       \E result \in {execute_call(call, handler_ok)} :
          /\ trace' = Append(trace, [Event("tool_done", Role) EXCEPT
                                        !.id = result.id, !.tool = result.tool,
                                        !.ok = result.ok])
          /\ toolResults' = Append(toolResults, result)
          /\ executed' = Append(executed, [role |-> Role, id |-> call.id])
    /\ pc' = "exec"
    /\ UNCHANGED <<state, roleIdx, response, finalResponse, toolCalls, results,
                   finalText, hasExecutor, maxToolRounds, menu, roleStartState,
                   capOp>>
    /\ UNCHANGED <<stream, env, sessionVars>>

\* the second _complete, with TOOL_RESULTS appended to the prompt: llm_req
ToolRoundReq ==
    /\ pc = "exec"
    /\ Len(toolResults) = Len(toolCalls)
    /\ trace' = Append(trace, Event("llm_req", Role))
    /\ pc' = "llm2_wait"
    /\ UNCHANGED <<state, roleIdx, response, finalResponse, toolCalls, toolResults,
                   results, finalText, hasExecutor, maxToolRounds, menu,
                   roleStartState, executed, capOp>>
    /\ UNCHANGED <<stream, env, sessionVars>>

\* the backend returns the second completion: llm_done, then the tool calls
\* of the response are parsed and ignored
ToolRoundDone(completion) ==
    /\ pc = "llm2_wait"
    /\ \E done \in {[Event("llm_done", Role) EXCEPT !.text = completion]} :
       \E parsed \in {extract_tool_calls(completion)} :
          /\ trace' = IF parsed.calls # <<>>
                      THEN trace \o <<done, IgnoredPlanEvent(Role, parsed.calls)>>
                      ELSE Append(trace, done)
          /\ finalResponse' = parsed.text
    /\ response' = completion
    /\ pc' = "finish"
    /\ UNCHANGED <<state, roleIdx, toolCalls, toolResults, results, finalText,
                   hasExecutor, maxToolRounds, menu, roleStartState, executed,
                   capOp>>
    /\ UNCHANGED <<stream, env, sessionVars>>

\* the events of lines 368-399: sanitize, sanitize_warning, visible_response
VisibleEvents(role, notes_stripped, sanitized) ==
    (IF sanitized.text # notes_stripped
     THEN <<Event("sanitize", role)>> ELSE <<>>)
    \o (IF sanitized.empty THEN <<Event("sanitize_warning", role)>> ELSE <<>>)
    \o <<[Event("visible_response", role) EXCEPT !.text = sanitized.text]>>

\* lines 401-434, [state, events]: the patch and its actions applied to the
\* state, the state condensed, and the events written on the way
ApplyPatch(role, st, patch) ==
    Let(apply_notes_patch(st, patch), LAMBDA patched :
    Let(apply_permission_actions(patched, patch.actions), LAMBDA action_report :
    Let(IF patch.actions # <<>> THEN action_report.state ELSE patched,
        LAMBDA acted :
    Let(condense_state(acted, CondensePolicy), LAMBDA condensed :
        [state |-> condensed.state,
         events |->
            (IF patch.actions # <<>>
             THEN <<[Event("actions", role) EXCEPT
                        !.applied = action_report.applied]>>
             ELSE <<>>)
            \o <<Event("notes_patch", role)>>
            \o (IF Trimmed(condensed.report)
                THEN <<Event("condense", role)>> ELSE <<>>)]))))

\* the rest of the role: markers stripped, notes extracted, the text sanitized,
\* the patch applied, the RoleResult appended; after the last role run_pipeline
\* returns final_text
FinishRole ==
    /\ pc = "finish"
    /\ \E notes \in {extract_notes(extract_tool_calls(finalResponse).text)} :
       \E sanitized \in {sanitize_visible_text_with_report(notes.text)} :
       \E applied \in {IF notes.some THEN ApplyPatch(Role, state, notes.patch)
                       ELSE [state |-> state, events |-> <<>>]} :
          /\ trace' = trace \o VisibleEvents(Role, notes.text, sanitized)
                            \o applied.events
          /\ state' = applied.state
          /\ results' = Append(results, [role |-> Role, text |-> sanitized.text,
                                         notes |-> notes.some])
          /\ IF roleIdx < Len(DefaultRoles)
             THEN /\ roleIdx' = roleIdx + 1
                  /\ pc' = "llm_req"
                  /\ UNCHANGED finalText
             ELSE /\ pc' = "done"
                  /\ finalText' = sanitized.text
                  /\ UNCHANGED roleIdx
    /\ UNCHANGED <<response, finalResponse, toolCalls, toolResults, hasExecutor,
                   maxToolRounds, menu, roleStartState, executed, capOp>>
    /\ UNCHANGED <<stream, env, sessionVars>>

-----------------------------------------------------------------------------
(* The completions a backend returns in a run, and the pipeline's turns.   *)

R_PLAIN == <<"Hello">>
R_EMPTY == <<>>
R_TOOLS == <<"Checking", NL>> \o TOOLS_START \o <<NL, DOC_CALLS2, NL>> \o TOOLS_END
R_TOOLS_ONLY == TOOLS_START \o <<DOC_CALLS1>> \o TOOLS_END
R_TOOLS_UNKNOWN == TOOLS_START \o <<DOC_CALLS_UNKNOWN>> \o TOOLS_END
R_NOTES_GRANT == NOTES_START \o <<DOC_NOTES_GRANT>> \o NOTES_END \o <<NL, "Granted">>
R_TOOLS_GRANT ==
    TOOLS_START \o <<DOC_CALLS2>> \o TOOLS_END \o <<NL>>
        \o NOTES_START \o <<DOC_NOTES_GRANT>> \o NOTES_END
R_BARE == <<DOC_BARE>>
R_BARE_SYS == <<DOC_BARE_SYS>>
R_NOTES == <<"Noted", NL>> \o NOTES_START \o <<NL, DOC_NOTES, NL>> \o NOTES_END
R_NOTES_ACT == NOTES_START \o <<DOC_NOTES_ACT>> \o NOTES_END \o <<NL, "Asked">>
\* "<<<END_NOTES_<<<END_NOTES_<<<END_NOTES_JSON>>>JSON>>>JSON>>>"
R_NEST == <<NOTES_END[1], NOTES_END[1], NOTES_END[1],
            MarkerTail, MarkerTail, MarkerTail>>
R_DANGLING == <<"Hello", SP>> \o NOTES_END
R_STATE_MID == <<"Hello", SP, "STATE:", SP, "x">>
R_STATE_TRAIL == <<"Hello", NL, NL, "STATE:", NL, "{...}">>
R_NOTES_DUP == NOTES_START \o <<DOC_NOTES_DUP>> \o NOTES_END \o <<NL, "Done">>
R_NOTES_LONG == NOTES_START \o <<DOC_NOTES_LONG>> \o NOTES_END \o <<NL, "Done">>

Menus ==
    { {R_PLAIN, R_TOOLS, R_NOTES, R_BARE},
      {R_EMPTY, R_TOOLS_ONLY, R_NOTES_ACT, R_BARE_SYS},
      {R_NEST, R_STATE_MID, R_STATE_TRAIL, R_DANGLING},
      {R_PLAIN, R_NOTES_DUP, R_NOTES_LONG, R_TOOLS_UNKNOWN},
      {R_PLAIN, R_NOTES_GRANT, R_TOOLS_GRANT} }

\* the checkpoint states a turn starts from: a new session, and a session that
\* already carries an open loop and a granted capability
InitStates ==
    { FreshState,
      State(<<"ship">>, <<"loop-1">>, <<>>, <<>>, "", <<>>, <<>>, <<"net">>, <<>>) }

\* no operation of the session is in progress and none has run; run_id is the
\* number n of the current turn's run id "rev-<n>"
NoOperation ==
    [op |-> "none", turns |-> 0, adds |-> 0, faults |-> 0, run_id |-> 0,
     base |-> 0, start |-> [kind |-> "absent"], log |-> <<>>]

NoLimits == [turns |-> 0, adds |-> 0, faults |-> 0]

\* no tool or parser is called on its own
NoEnv == [op |-> "none"]

NoSave ==
    [status |-> "none", revision |-> 0, updated_ts |-> 0,
     before |-> [kind |-> "absent"], payload |-> [ty |-> "null"]]

\* run_pipeline called on its own, as the tests call it: no checkpoint
\* directory is read or written
NoSession ==
    /\ checkpoint = [session_id |-> "session-1", revision |-> 0, updated_ts |-> 0,
                     recent_messages |-> <<>>, trace_tail |-> <<>>]
    /\ clock = 0
    /\ files = [json |-> [kind |-> "absent"], tmp |-> [kind |-> "absent"]]
    /\ traces = <<>>
    /\ sess = NoOperation
    /\ limits = NoLimits
    /\ saveCall = NoSave
    /\ lastLoad = [called |-> FALSE, result |-> [ok |-> TRUE, found |-> FALSE]]

\* the variables of run_pipeline before it is called
PipelineIdle ==
    /\ roleIdx = 1
    /\ response = <<>>
    /\ finalResponse = <<>>
    /\ toolCalls = <<>>
    /\ toolResults = <<>>
    /\ trace = <<>>
    /\ results = <<>>
    /\ finalText = <<>>
    /\ hasExecutor = FALSE
    /\ maxToolRounds = 1
    /\ menu = {}
    /\ roleStartState = state
    /\ executed = <<>>
    /\ stream = FALSE

CapIdle ==
    [op |-> "none", cap |-> "", changed |-> FALSE,
     granted |-> <<>>, pending |-> <<>>, prevGrant |-> ""]

Init ==
    /\ state \in InitStates
    /\ pc = "llm_req"
    /\ roleIdx = 1
    /\ response = <<>>
    /\ finalResponse = <<>>
    /\ toolCalls = <<>>
    /\ toolResults = <<>>
    /\ trace = <<>>
    /\ results = <<>>
    /\ finalText = <<>>
    /\ hasExecutor \in BOOLEAN
    /\ maxToolRounds \in {1, 2}
    /\ menu \in Menus
    /\ roleStartState = state
    /\ executed = <<>>
    /\ capOp = CapIdle
    /\ stream = FALSE
    /\ env = NoEnv
    /\ NoSession

Next ==
    \/ LlmReq
    \/ \E completion \in menu : LlmDone(completion)
    \/ ToolStart
    \/ \E handler_ok \in BOOLEAN : ToolDone(handler_ok)
    \/ ToolRoundReq
    \/ \E completion \in menu : ToolRoundDone(completion)
    \/ FinishRole

Spec == Init /\ [][Next]_vars

-----------------------------------------------------------------------------
(* The capability operations called on a state, one after another.         *)

Caps == {"net", "net:example.com"}

SeqsUpTo(S, n) == UNION {[1..k -> S] : k \in 0..n}

\* the action strings a notes patch may carry
ActionStrings ==
    {<<REQUEST_PREFIX, cap>> : cap \in Caps}
    \cup {<<GRANT_PREFIX, cap>> : cap \in Caps}
    \cup {<<REQUEST_PREFIX>>, <<"clear_pending">>, <<"revoke_permission:", "net">>}

Disjoint(st) ==
    Elems(st.capabilities_granted) \cap Elems(st.capabilities_pending) = {}

\* what a call leaves behind: the operation, its argument, what it returned,
\* the lists it was called on, and the capability of the call before it when
\* that call was grant_permission
Called(op, cap, r) ==
    /\ state' = r.state
    /\ capOp' = [op |-> op, cap |-> cap, changed |-> r.changed,
                 granted |-> state.capabilities_granted,
                 pending |-> state.capabilities_pending,
                 prevGrant |-> IF capOp.op = "grant" THEN capOp.cap ELSE ""]
    /\ UNCHANGED <<pipeVars, sessionVars>>

RequestPermission(cap) ==
    /\ pc = "cap"
    /\ Called("request", cap, request_permission(state, cap))

GrantPermission(cap) ==
    /\ pc = "cap"
    /\ Called("grant", cap, grant_permission(state, cap))

RevokePermission(cap) ==
    /\ pc = "cap"
    /\ Called("revoke", cap, revoke_permission(state, cap))

ClearPending ==
    /\ pc = "cap"
    /\ Called("clear", "", clear_pending(state))

ApplyPermissionActions(actions) ==
    /\ pc = "cap"
    /\ LET report == apply_permission_actions(state, actions)
       IN  Called("apply", "", [state |-> report.state,
                                changed |-> report.applied # <<>>])

CapLists == SeqsUpTo(Caps, MaxCapLen)

InitCapWith(granted, pending) ==
    /\ state = State(<<>>, <<>>, <<>>, <<>>, "", <<>>, <<>>, granted, pending)
    /\ pc = "cap"
    /\ roleIdx = 1
    /\ response = <<>>
    /\ finalResponse = <<>>
    /\ toolCalls = <<>>
    /\ toolResults = <<>>
    /\ trace = <<>>
    /\ results = <<>>
    /\ finalText = <<>>
    /\ hasExecutor = FALSE
    /\ maxToolRounds = 1
    /\ menu = {}
    /\ roleStartState = state
    /\ executed = <<>>
    /\ capOp = CapIdle
    /\ stream = FALSE
    /\ env = NoEnv
    /\ NoSession

\* a state whose granted and pending lists share no capability
InitCap ==
    \E granted \in CapLists : \E pending \in CapLists :
        /\ Elems(granted) \cap Elems(pending) = {}
        /\ InitCapWith(granted, pending)

\* any state, as one read from a checkpoint file
InitCapAny ==
    \E granted \in CapLists : \E pending \in CapLists :
        InitCapWith(granted, pending)

NextCap ==
    \/ \E cap \in Caps : RequestPermission(cap)
    \/ \E cap \in Caps : GrantPermission(cap)
    \/ \E cap \in Caps : RevokePermission(cap)
    \/ ClearPending
    \/ \E actions \in SeqsUpTo(ActionStrings, MaxActions) :
            ApplyPermissionActions(actions)

SpecCap == InitCap /\ [][NextCap]_vars

SpecCapAny == InitCapAny /\ [][NextCap]_vars

-----------------------------------------------------------------------------
(* load_latest on the checkpoint files a session directory may hold.       *)

\* f"{session_id}__{run_id}.jsonl" with run_id = f"rev-{n}"
TraceName(n) == <<SESSION, "__rev-", n, ".jsonl">>

USER_TEXT == <<"Hello">>

\* the state of test_checkpoint_roundtrip
RoundTripState ==
    State(<<"goal">>, <<"loop">>, <<"decision">>, <<"constraint">>, "summary",
          <<"tag">>, <<"ref">>, <<"net">>, <<"net:example.com">>)

\* the payload of a session's second save
SavedPayload ==
    asdict(Checkpoint(SESSION, 2, 5, <<ChatMessage("user", USER_TEXT)>>,
                      <<TraceName(1)>>), RoundTripState)

\* payloads save_checkpoint has written
BasePayloads ==
    {asdict(Checkpoint(SESSION, 1, 1, <<>>, <<>>), FreshState), SavedPayload}

SetField(obj, k, v) ==
    JObj([x \in DOMAIN obj.fields \cup {k} |-> IF x = k THEN v ELSE obj.fields[x]])

DelField(obj, k) == JObj([x \in DOMAIN obj.fields \ {k} |-> obj.fields[x]])

TopFields ==
    {"session_id", "revision", "updated_ts", "state", "recent_messages",
     "trace_tail"}

StateFields == ListFields \cup {"episode_summary"}

\* values of another type than the field's
WrongValues(field) ==
    CASE field \in ListFields -> {JStr("not-a-list"), JList(<<JInt(1)>>)}
      [] field = "episode_summary" -> {JInt(123)}
      [] field = "session_id" -> {JInt(1)}
      [] field = "revision" -> {JStr("1"), JFloat(1), JBool(TRUE)}
      [] field = "updated_ts" -> {JStr("now"), JBool(TRUE)}
      [] field = "state" -> {JList(<<>>), JStr("state")}
      [] field = "recent_messages" ->
            {JStr("messages"), JList(<<JStr("Hello")>>),
             JList(<<JObj("role" :> JStr("user"))>>)}
      [] field = "trace_tail" -> {JStr("trace.jsonl"), JList(<<JInt(1)>>)}

\* payload with one field removed, null or of another type
Damaged(payload) ==
    {DelField(payload, k) : k \in TopFields}
    \cup UNION {{SetField(payload, k, v) : v \in {JNull} \cup WrongValues(k)} :
                 k \in TopFields}
    \cup {SetField(payload, "state", DelField(payload.fields["state"], k)) :
             k \in StateFields}
    \cup UNION {{SetField(payload, "state",
                          SetField(payload.fields["state"], k, v)) :
                    v \in {JNull} \cup WrongValues(k)} : k \in StateFields}

\* the files load_latest may find: none, an empty or cut one, a checkpoint as
\* saved, and a saved checkpoint edited in one field
LoadFiles ==
    {Absent, EmptyFile}
    \cup {PartOf(p) : p \in BasePayloads}
    \cup {FileOf(p) : p \in BasePayloads}
    \cup UNION {{FileOf(d) : d \in Damaged(p)} : p \in BasePayloads}

NotLoaded == [called |-> FALSE, result |-> [ok |-> TRUE, found |-> FALSE]]

\* load_latest(session_id, base_dir)
LoadLatest ==
    /\ pc = "load"
    /\ lastLoad' = [called |-> TRUE, result |-> load_latest(files.json)]
    /\ pc' = "loaded"
    /\ UNCHANGED <<state, roleIdx, response, finalResponse, toolCalls,
                   toolResults, trace, results, finalText, hasExecutor,
                   maxToolRounds, menu, roleStartState, executed, capOp, stream, env,
                   checkpoint, clock, files, traces, sess, limits, saveCall>>

InitLoad ==
    /\ state = FreshState
    /\ pc = "load"
    /\ PipelineIdle
    /\ env = NoEnv
    /\ capOp = CapIdle
    /\ checkpoint = Checkpoint(SESSION, 0, 0, <<>>, <<>>)
    /\ clock = 0
    /\ files \in {[json |-> f, tmp |-> Absent] : f \in LoadFiles}
    /\ traces = <<>>
    /\ sess = NoOperation
    /\ limits = NoLimits
    /\ saveCall = NoSave
    /\ lastLoad = NotLoaded

NextLoad == LoadLatest

SpecLoad == InitLoad /\ [][NextLoad]_vars

-----------------------------------------------------------------------------
(* runtime/open_loops_admin.py                                             *)

\* the title the administrator gives to an open loop
TITLE == "Task"

\* _build_entry for a title alone:
\* json.dumps({"id": "loop-<n>", "title": title}, separators=(",", ":"))
Entry(n) == "{\"id\":\"loop-" \o ToString(n) \o "\",\"title\":\"" \o TITLE \o "\"}"

\* the numbers add_open_loop can have given out
EntryIds == 1..(MaxAdds + 2)

\* _parse_entry and _ID_RE: the n of an entry whose id is "loop-<n>", 0 for
\* an entry that is not a JSON object with such an id
EntryNumber(raw) ==
    IF \E n \in EntryIds : raw = Entry(n)
    THEN CHOOSE n \in EntryIds : raw = Entry(n)
    ELSE 0

RECURSIVE MaxId(_, _)
MaxId(open_loops, max_id) ==
    IF open_loops = <<>> THEN max_id
    ELSE MaxId(Tail(open_loops),
               IF EntryNumber(open_loops[1]) > max_id
               THEN EntryNumber(open_loops[1]) ELSE max_id)

\* _next_loop_id, the number of the id
next_loop_id(open_loops) == MaxId(open_loops, 0) + 1

\* _build_entry(existing, title, None, None, None)
build_entry(existing) == Entry(next_loop_id(existing))

-----------------------------------------------------------------------------
(* A session: run_turn, add_open_loop and save_checkpoint on one checkpoint *)
(* directory, one operation at a time, with the faults that may end one.    *)
(* A file's kind is what a reader finds in it after a crash: text handed to *)
(* write() is whole in the file only once flush and fsync have returned.    *)

SavePcs == {"save", "save_open", "save_write", "save_sync", "save_replace"}

\* the trace file the turn's TraceWriter appends to, as the turn found it
TraceFile(run_id) == IF run_id \in DOMAIN traces THEN traces[run_id] ELSE <<>>

\* the operation in progress ends: its record is added to the session's log,
\* and the events it wrote stay in its trace file
Ended(outcome, file) ==
    /\ sess' = [sess EXCEPT
                  !.op = "none",
                  !.faults = IF outcome \in {"saved", "load_error"} THEN @ ELSE @ + 1,
                  !.log = Append(@, [op |-> sess.op, run_id |-> sess.run_id,
                                     from |-> sess.base, to |-> Len(trace),
                                     outcome |-> outcome,
                                     before |-> sess.start, after |-> file])]
    /\ traces' = IF sess.op = "turn" /\ trace # <<>>
                 THEN (sess.run_id :> trace) @@ traces
                 ELSE traces
    /\ pc' = "idle"

\* run_turn up to the call of run_pipeline (controller.py:26-56): the
\* checkpoint is loaded or created, the user's message appended, the run id
\* derived from the revision and the TraceWriter made for it
TurnStart ==
    /\ pc = "idle"
    /\ sess.turns < limits.turns
    /\ \E r \in {load_or_create(files.json, clock)} :
          IF ~r.ok
          THEN /\ sess' = [sess EXCEPT
                             !.turns = @ + 1,
                             !.log = Append(@, [op |-> "turn", run_id |-> 0,
                                                from |-> 0, to |-> 0,
                                                outcome |-> "load_error",
                                                before |-> files.json,
                                                after |-> files.json])]
               /\ lastLoad' = [called |-> TRUE, result |-> r]
               /\ UNCHANGED <<state, pc, roleIdx, response, finalResponse,
                              toolCalls, toolResults, trace, results, finalText,
                              hasExecutor, maxToolRounds, roleStartState,
                              executed, checkpoint, clock>>
          ELSE /\ checkpoint' = [r.checkpoint EXCEPT
                                   !.recent_messages =
                                       Append(@, ChatMessage("user", USER_TEXT))]
               /\ state' = r.state
               /\ roleStartState' = r.state
               /\ clock' = IF files.json.kind = "absent" THEN clock + 1 ELSE clock
               /\ lastLoad' = [called |-> TRUE, result |-> r]
               /\ sess' = [sess EXCEPT !.op = "turn", !.turns = @ + 1,
                                       !.run_id = r.checkpoint.revision + 1,
                                       !.base = Len(TraceFile(r.checkpoint.revision + 1)),
                                       !.start = files.json]
               /\ trace' = TraceFile(r.checkpoint.revision + 1)
               /\ roleIdx' = 1
               /\ response' = <<>>
               /\ finalResponse' = <<>>
               /\ toolCalls' = <<>>
               /\ toolResults' = <<>>
               /\ results' = <<>>
               /\ finalText' = <<>>
               /\ executed' = <<>>
               /\ hasExecutor' = TRUE
               /\ maxToolRounds' = 2
               /\ pc' = "llm_req"
    /\ UNCHANGED <<menu, capOp, stream, env, files, traces, limits, saveCall>>

\* trace_tail after the turn, without the cut to the last 20
trace_tail_uncut(trace_tail, trace_name) ==
    IF In(trace_tail, trace_name) THEN trace_tail
    ELSE Append(trace_tail, trace_name)

\* trace_tail after the turn (controller.py:69-74)
trace_tail_with(trace_tail, trace_name) ==
    Let(IF In(trace_tail, trace_name) THEN trace_tail
        ELSE Append(trace_tail, trace_name), LAMBDA tail :
        IF Len(tail) > 20 THEN SubSeq(tail, Len(tail) - 19, Len(tail)) ELSE tail)

\* run_turn after run_pipeline has returned (controller.py:66-75): the
\* assistant's message and the trace file's name are appended, and
\* save_checkpoint is called
TurnFinish ==
    /\ pc = "done"
    /\ sess.op = "turn"
    /\ checkpoint' = [checkpoint EXCEPT
                        !.recent_messages =
                            Append(@, ChatMessage("assistant", finalText)),
                        !.trace_tail =
                            IF trace # <<>>
                            THEN trace_tail_with(@, TraceName(sess.run_id))
                            ELSE @]
    /\ pc' = "save"
    /\ UNCHANGED <<state, roleIdx, response, finalResponse, toolCalls,
                   toolResults, trace, results, finalText, hasExecutor,
                   maxToolRounds, menu, roleStartState, executed, capOp, stream, env,
                   clock, files, traces, sess, limits, saveCall, lastLoad>>

\* add_open_loop up to its call of save_checkpoint (open_loops_admin.py:37-41)
AddOpenLoop ==
    /\ pc = "idle"
    /\ sess.adds < limits.adds
    /\ \E r \in {load_or_create(files.json, clock)} :
          IF ~r.ok
          THEN /\ sess' = [sess EXCEPT
                             !.adds = @ + 1,
                             !.log = Append(@, [op |-> "admin", run_id |-> 0,
                                                from |-> 0, to |-> 0,
                                                outcome |-> "load_error",
                                                before |-> files.json,
                                                after |-> files.json])]
               /\ lastLoad' = [called |-> TRUE, result |-> r]
               /\ UNCHANGED <<state, pc, checkpoint, clock>>
          ELSE /\ checkpoint' = r.checkpoint
               /\ state' = [r.state EXCEPT
                              !.open_loops = Append(@, build_entry(@))]
               /\ clock' = IF files.json.kind = "absent" THEN clock + 1 ELSE clock
               /\ lastLoad' = [called |-> TRUE, result |-> r]
               /\ sess' = [sess EXCEPT !.op = "admin", !.adds = @ + 1,
                                       !.run_id = 0, !.base = Len(trace),
                                       !.start = files.json]
               /\ pc' = "save"
    /\ UNCHANGED <<roleIdx, response, finalResponse, toolCalls, toolResults,
                   trace, results, finalText, hasExecutor, maxToolRounds, menu,
                   roleStartState, executed, capOp, stream, env, files, traces,
                   limits, saveCall>>

\* the steps of save_checkpoint on the two files
\* line 27 opening the checkpoint's own path in place of the temporary one
open_in_place(fs) == [fs EXCEPT !.json = EmptyFile]
\* line 27: temp_path.open("w") makes the temporary file, or empties it
open_temp(fs) == [fs EXCEPT !.tmp = EmptyFile]
\* line 28: handle.write(json.dumps(payload))
write_payload(fs, payload) == [fs EXCEPT !.tmp = PartOf(payload)]
\* lines 29-30 without the flush and the fsync
flush_fsync_skipped(fs, payload) == fs
\* lines 29-30: handle.flush(); os.fsync(handle.fileno())
flush_fsync(fs, payload) == [fs EXCEPT !.tmp = FileOf(payload)]
\* line 31 leaving the checkpoint file as it is
replace_not_done(fs) == [json |-> fs.json, tmp |-> Absent]
\* line 31: temp_path.replace(path)
replace(fs) == [json |-> fs.tmp, tmp |-> Absent]

\* save_checkpoint, lines 21-26: the revision is raised, updated_ts set and
\* the payload made
SaveBegin ==
    /\ pc = "save"
    /\ checkpoint' = [checkpoint EXCEPT !.revision = @ + 1, !.updated_ts = clock]
    /\ clock' = clock + 1
    /\ saveCall' = [status |-> "running", revision |-> checkpoint.revision,
                    updated_ts |-> checkpoint.updated_ts, before |-> files.json,
                    payload |-> asdict(checkpoint', state)]
    /\ pc' = "save_open"
    /\ UNCHANGED <<state, roleIdx, response, finalResponse, toolCalls,
                   toolResults, trace, results, finalText, hasExecutor,
                   maxToolRounds, menu, roleStartState, executed, capOp, stream, env,
                   files, traces, sess, limits, lastLoad>>

SaveStep(from, to, fs) ==
    /\ pc = from
    /\ files' = fs
    /\ pc' = to
    /\ UNCHANGED <<state, roleIdx, response, finalResponse, toolCalls,
                   toolResults, trace, results, finalText, hasExecutor,
                   maxToolRounds, menu, roleStartState, executed, capOp, stream, env,
                   checkpoint, clock, traces, sess, limits, saveCall, lastLoad>>

SaveOpen == SaveStep("save_open", "save_write", open_temp(files))

SaveWrite == SaveStep("save_write", "save_sync", write_payload(files, saveCall.payload))

SaveSync == SaveStep("save_sync", "save_replace", flush_fsync(files, saveCall.payload))

\* line 31-32: the temporary file takes the checkpoint's place and
\* save_checkpoint returns; so does the operation that called it
SaveReplace ==
    /\ pc = "save_replace"
    /\ files' = replace(files)
    /\ saveCall' = [saveCall EXCEPT !.status = "returned"]
    /\ Ended("saved", files'.json)
    /\ UNCHANGED <<state, roleIdx, response, finalResponse, toolCalls,
                   toolResults, trace, results, finalText, hasExecutor,
                   maxToolRounds, menu, roleStartState, executed, capOp, stream, env,
                   checkpoint, clock, limits, lastLoad>>

\* the step save_checkpoint is about to take raises OSError (mkdir, open,
\* write, fsync or replace fails): the exception leaves save_checkpoint and
\* the operation that called it
SaveRaises ==
    /\ pc \in SavePcs
    /\ sess.faults < limits.faults
    /\ files' = IF pc = "save_write" THEN write_payload(files, saveCall.payload)
                ELSE files
    /\ saveCall' = IF pc = "save"
                   THEN [status |-> "raised", revision |-> checkpoint.revision,
                         updated_ts |-> checkpoint.updated_ts,
                         before |-> files.json, payload |-> JNull]
                   ELSE [saveCall EXCEPT !.status = "raised"]
    /\ Ended("save_error", files'.json)
    /\ UNCHANGED <<state, roleIdx, response, finalResponse, toolCalls,
                   toolResults, trace, results, finalText, hasExecutor,
                   maxToolRounds, menu, roleStartState, executed, capOp, stream, env,
                   checkpoint, clock, limits, lastLoad>>

\* backend.complete raises (an LLM timeout): nothing between _complete and
\* the caller of run_turn catches it
BackendRaises ==
    /\ pc \in {"llm_wait", "llm2_wait"}
    /\ sess.op = "turn"
    /\ sess.faults < limits.faults
    /\ Ended("backend_error", files.json)
    /\ UNCHANGED <<state, roleIdx, response, finalResponse, toolCalls,
                   toolResults, trace, results, finalText, hasExecutor,
                   maxToolRounds, menu, roleStartState, executed, capOp, stream, env,
                   checkpoint, clock, files, limits, saveCall, lastLoad>>

\* the process is killed, or the machine stops, while an operation runs
Crash ==
    /\ sess.op \in {"turn", "admin"}
    /\ sess.faults < limits.faults
    /\ saveCall' = IF pc \in SavePcs \ {"save"}
                   THEN [saveCall EXCEPT !.status = "crashed"] ELSE saveCall
    /\ Ended("crashed", files.json)
    /\ UNCHANGED <<state, roleIdx, response, finalResponse, toolCalls,
                   toolResults, trace, results, finalText, hasExecutor,
                   maxToolRounds, menu, roleStartState, executed, capOp, stream, env,
                   checkpoint, clock, files, limits, lastLoad>>

\* a response with a tool call, a notes block and a visible text
R_TURN ==
    TOOLS_START \o <<DOC_CALLS1>> \o TOOLS_END
    \o NOTES_START \o <<DOC_NOTES>> \o NOTES_END \o <<NL, "Done">>

\* the completions of a session's backend: it answers every request of the
\* session with the same text
SessionMenus == {{R_TURN}}

\* the checkpoint file a session starts with: none, one that does not load,
\* and one that lacks a field but loads
\* the checkpoint file after n turns of a session whose backend answered
\* "Hello" and left the state alone: revision n, 2n messages, and the names of
\* the last 20 trace files
TurnsFile(n) ==
    FileOf(asdict(
        Checkpoint(SESSION, n, n,
                   [m \in 1..(2 * n) |->
                       ChatMessage(IF m % 2 = 1 THEN "user" ELSE "assistant", R_PLAIN)],
                   [k \in 1..(IF n > 20 THEN 20 ELSE n) |->
                       TraceName((IF n > 20 THEN n - 20 ELSE 0) + k)]),
        FreshState))

\* the checkpoint file a session starts with: none, one that does not load,
\* one that lacks a field but loads, and one of a session with 19 turns behind
\* it, one short of a full trace_tail
SessionFiles ==
    {Absent, FileOf(SetField(SavedPayload, "revision", JNull)),
     FileOf(DelField(SavedPayload, "trace_tail")), TurnsFile(19)}

InitSessionWith(lim) ==
    /\ state = FreshState
    /\ pc = "idle"
    /\ roleIdx = 1
    /\ response = <<>>
    /\ finalResponse = <<>>
    /\ toolCalls = <<>>
    /\ toolResults = <<>>
    /\ trace = <<>>
    /\ results = <<>>
    /\ finalText = <<>>
    /\ hasExecutor = TRUE
    /\ maxToolRounds = 2
    /\ menu \in SessionMenus
    /\ roleStartState = state
    /\ executed = <<>>
    /\ stream = FALSE
    /\ env = NoEnv
    /\ capOp = CapIdle
    /\ checkpoint = Checkpoint(SESSION, 0, 0, <<>>, <<>>)
    /\ clock = 1
    /\ files \in {[json |-> f, tmp |-> Absent] : f \in SessionFiles}
    /\ traces = <<>>
    /\ sess = NoOperation
    /\ limits = lim
    /\ saveCall = NoSave
    /\ lastLoad = NotLoaded

\* a session of a few turns, without administrative additions
InitSession ==
    InitSessionWith([turns |-> MaxTurns, adds |-> 0, faults |-> MaxFaults])

\* a session of many administrative additions around a turn, from a fresh
\* checkpoint directory and without faults
InitAdmin ==
    /\ InitSessionWith([turns |-> MaxAdminTurns, adds |-> MaxAdds, faults |-> 0])
    /\ files.json = Absent

NextSession ==
    \/ TurnStart
    \/ LlmReq
    \/ \E completion \in menu : LlmDone(completion)
    \/ ToolStart
    \/ \E handler_ok \in BOOLEAN : ToolDone(handler_ok)
    \/ ToolRoundReq
    \/ \E completion \in menu : ToolRoundDone(completion)
    \/ FinishRole
    \/ TurnFinish
    \/ SaveBegin
    \/ SaveOpen
    \/ SaveWrite
    \/ SaveSync
    \/ SaveReplace
    \/ SaveRaises
    \/ BackendRaises
    \/ Crash

SpecSession == InitSession /\ [][NextSession]_vars

NextAdmin ==
    \/ TurnStart
    \/ LlmReq
    \/ \E completion \in menu : LlmDone(completion)
    \/ ToolStart
    \/ \E handler_ok \in BOOLEAN : ToolDone(handler_ok)
    \/ ToolRoundReq
    \/ \E completion \in menu : ToolRoundDone(completion)
    \/ FinishRole
    \/ TurnFinish
    \/ AddOpenLoop
    \/ SaveBegin
    \/ SaveOpen
    \/ SaveWrite
    \/ SaveSync
    \/ SaveReplace

SpecAdmin == InitAdmin /\ [][NextAdmin]_vars

-----------------------------------------------------------------------------
(* What the claims speak of.                                               *)

\* the positions of the trace that hold an event of this kind for this role
EventsOf(kind, role) ==
    {k \in 1..Len(trace) : trace[k].kind = kind /\ trace[k].role = role}

\* the roles whose RoleResult has been appended
Processed == {results[i].role : i \in 1..Len(results)}

\* the last completion the backend returned for a role
LastResponse(role) ==
    LET done == EventsOf("llm_done", role)
    IN  trace[CHOOSE k \in done : \A j \in done : j <= k].text

\* the fields of State that the notes patch and the permission actions write
SameFields(a, b) ==
    /\ a.goals = b.goals
    /\ a.open_loops = b.open_loops
    /\ a.decisions = b.decisions
    /\ a.constraints = b.constraints
    /\ a.episode_summary = b.episode_summary
    /\ a.memory_tags = b.memory_tags
    /\ a.capabilities_granted = b.capabilities_granted
    /\ a.capabilities_pending = b.capabilities_pending

\* the role whose RoleResult was appended last, once its processing is over
JustProcessed(role) ==
    /\ pc \in {"llm_req", "done"}
    /\ results # <<>>
    /\ results[Len(results)].role = role

HasMarker(text) ==
    \E marker \in {TOOLS_START, TOOLS_END, NOTES_START, NOTES_END} :
        Contains(text, marker)

\* a text that is one JSON object with a name or tool key and an arguments or
\* args key
IsBareToolCall(text) ==
    LET loaded == JsonLoads(text)
    IN  /\ loaded.ok
        /\ IsDict(loaded.value)
        /\ {"name", "tool"} \cap DOMAIN loaded.value.fields # {}
        /\ {"arguments", "args"} \cap DOMAIN loaded.value.fields # {}

\* C1: once a role other than the governor has been processed, every field of
\* checkpoint.state has the value it had before the role ran, whatever notes
\* block the role's response carried.
C1_NonGovernorNotesDiscarded ==
    \A role \in {"reflection", "planner", "critic"} :
        JustProcessed(role) => SameFields(state, roleStartState)

\* C2: for a role other than the governor the tool executor is never called
\* and no tool_plan, tool_start or tool_done event is written.
C2_OnlyGovernorRunsTools ==
    /\ \A i \in 1..Len(executed) : executed[i].role = "governor"
    /\ \A k \in 1..Len(trace) :
          trace[k].kind \in {"tool_plan", "tool_start", "tool_done"}
              => trace[k].role = "governor"

\* reflection answered with a canonical block and planner with a bare
\* tool-call JSON, an executor was there and two rounds were allowed, and both
\* roles have been processed
C2_Witness ==
    /\ hasExecutor /\ maxToolRounds = 2
    /\ {"reflection", "planner"} \subseteq Processed
    /\ LastResponse("reflection") = R_TOOLS
    /\ LastResponse("planner") = R_BARE

\* C3: in a turn at most one tool_plan event without the ignored flag is
\* written, the backend is called at most twice for the governor, and no tool
\* is started after the governor's second response: the calls it holds are
\* never handed to the executor.
C3_AtMostOneToolRound ==
    LET plans == {k \in 1..Len(trace) :
                    trace[k].kind = "tool_plan" /\ ~trace[k].ignored}
        answers == EventsOf("llm_done", "governor")
        starts == {k \in 1..Len(trace) : trace[k].kind = "tool_start"}
    IN  /\ Cardinality(plans) <= 1
        /\ Cardinality(EventsOf("llm_req", "governor")) <= 2
        /\ Cardinality(answers) <= 2
        /\ Cardinality(starts) = Len(executed) + (IF pc = "tool" THEN 1 ELSE 0)
        /\ \A k \in starts : Cardinality({j \in answers : j < k}) = 1
        /\ Len(executed) <= Len(toolCalls)

\* the turn is over, and the governor's second response held tool calls
C3_Witness ==
    /\ pc = "done"
    /\ executed # <<>>
    /\ extract_tool_calls(LastResponse("governor")).calls # <<>>
    /\ \E k \in 1..Len(trace) : trace[k].kind = "tool_plan" /\ trace[k].ignored

\* C4: neither final_text nor the text of any visible_response event holds one
\* of the four marker tokens.
C4_NoMarkersVisible ==
    /\ pc = "done" => ~HasMarker(finalText)
    /\ \A k \in 1..Len(trace) :
          trace[k].kind = "visible_response" => ~HasMarker(trace[k].text)

\* C5: final_text holds none of STATE:, HISTORY_JSON:, UPSTREAM:,
\* TOOL_RESULTS:, wherever in the text the header would stand.
C5_NoScaffoldingVisible ==
    pc = "done" =>
        \A header \in {"STATE:", "HISTORY_JSON:", "UPSTREAM:", "TOOL_RESULTS:"} :
            ~In(finalText, header)

\* C6: the visible text of a role is never a bare tool-call JSON object, and a
\* role whose response is one gets "..." as its visible text.
C6_NoBareToolCallVisible ==
    \A i \in 1..Len(results) :
        /\ ~IsBareToolCall(results[i].text)
        /\ IsBareToolCall(LastResponse(results[i].role))
              => results[i].text = ELLIPSIS

\* C7: the visible text of a role is never empty or blank; when the response
\* of the role is the empty string the visible text is "..." and a
\* sanitize_warning event is written for the role; final_text is never empty.
C7_EmptyBecomesEllipsis ==
    /\ \A i \in 1..Len(results) :
          /\ Strip(results[i].text) # <<>>
          /\ LastResponse(results[i].role) = <<>>
                => /\ results[i].text = ELLIPSIS
                   /\ EventsOf("sanitize_warning", results[i].role) # {}
    /\ pc = "done" => finalText # <<>>

\* C8: from a state with disjoint lists, after any sequence of the five
\* capability operations capabilities_granted and capabilities_pending have
\* no element in common.
C8_DisjointPreserved == Disjoint(state)

\* a pending capability has just been granted
C8_Witness ==
    /\ capOp.op = "grant"
    /\ In(capOp.pending, capOp.cap)
    /\ In(state.capabilities_granted, capOp.cap)

\* C9: request_permission, grant_permission, revoke_permission and
\* clear_pending, called on any state, return with disjoint lists.
C9_EachOperationNormalizes ==
    capOp.op \in {"request", "grant", "revoke", "clear"} => Disjoint(state)

\* C10: a grant_permission(cap) that follows a grant_permission(cap) leaves
\* both lists as the first one left them and returns False.
C10_GrantIdempotent ==
    (capOp.op = "grant" /\ capOp.prevGrant = capOp.cap)
        => /\ state.capabilities_granted = capOp.granted
           /\ state.capabilities_pending = capOp.pending
           /\ ~capOp.changed

\* the same capability has been granted twice in a row on a state that still
\* has something pending
C10_Witness ==
    /\ capOp.op = "grant"
    /\ capOp.prevGrant = capOp.cap
    /\ state.capabilities_pending # <<>>

\* the value is a JSON list of strings
IsStrList(v) == IsList(v) /\ AllStr(v)

\* the fields of the checkpoint schema are present in the payload, each with
\* its type: the state's lists and episode_summary, recent_messages,
\* trace_tail and revision
SchemaHolds(payload) ==
    /\ IsDict(payload)
    /\ Get(payload, "revision").ty = "int"
    /\ IsDict(Get(payload, "state"))
    /\ \A k \in ListFields : IsStrList(Get(Get(payload, "state"), k))
    /\ IsStr(Get(Get(payload, "state"), "episode_summary"))
    /\ IsList(Get(payload, "recent_messages"))
    /\ \A i \in 1..Len(Get(payload, "recent_messages").items) :
          IsMessage(Get(payload, "recent_messages").items[i])
    /\ IsStrList(Get(payload, "trace_tail"))

\* C16: load_latest raises an error for every checkpoint file in which a
\* schema field is missing, null or of the wrong type; it never returns a
\* checkpoint with a default in the field's place.
C16_LoadRejectsSchemaErrors ==
    (pc = "loaded" /\ files.json.kind = "json" /\ ~SchemaHolds(files.json.payload))
        => ~lastLoad.result.ok

\* the capped lists of a state are within the policy's maxima
CappedWithin(st, policy) ==
    /\ Len(st.goals) <= policy.max_goals
    /\ Len(st.open_loops) <= policy.max_open_loops
    /\ Len(st.decisions) <= policy.max_decisions
    /\ Len(st.constraints) <= policy.max_constraints
    /\ Len(st.memory_tags) <= policy.max_memory_tags

\* the record of the operation that ended last
LastEnded == sess.log[Len(sess.log)]

\* an operation has returned and none is in progress
Returned_ == pc = "idle" /\ sess.log # <<>> /\ LastEnded.outcome = "saved"

\* C11: in every state a session reaches from a fresh checkpoint by turns and
\* administrative open-loop additions, each capped list holds at most the
\* policy maximum (32) once the operation has finished.
C11_CappedListsBounded == Returned_ => CappedWithin(state, CondensePolicy)

\* C14: at every step of save_checkpoint, and after a crash following any
\* step, the checkpoint file is absent or a whole document, and it is the file
\* found when the call began or the payload of the call.
C14_CheckpointFileWhole ==
    /\ files.json.kind \in {"absent", "json"}
    /\ saveCall.status # "none" =>
          files.json \in {saveCall.before, FileOf(saveCall.payload)}

\* C14 witness: a crash has ended save_checkpoint between the opening of the
\* temporary file and its renaming, and the checkpoint file is the one found
\* when the call began.
C14_Witness ==
    /\ pc = "idle"
    /\ saveCall.status = "crashed"
    /\ files.tmp.kind \in {"empty", "partial", "json"}
    /\ files.json = saveCall.before
    /\ files.json.kind = "json"

\* C15: save_checkpoint raises revision by exactly 1 when it returns, and
\* when it raises, the checkpoint in memory has the revision and updated_ts it
\* had before the call.
C15_RevisionOnlyOnSuccess ==
    /\ (pc = "idle" /\ sess.log # <<>> /\ LastEnded.outcome = "saved")
          => checkpoint.revision = saveCall.revision + 1
    /\ (pc = "idle" /\ sess.log # <<>> /\ LastEnded.outcome = "save_error")
          => /\ checkpoint.revision = saveCall.revision
             /\ checkpoint.updated_ts = saveCall.updated_ts

\* C17: a turn that fails or is abandoned before its save has finished leaves
\* the checkpoint file as it was when the turn started.
C17_FailedTurnKeepsCheckpoint ==
    /\ sess.op = "turn" => files.json = sess.start
    /\ \A i \in DOMAIN sess.log :
          (sess.log[i].op = "turn" /\ sess.log[i].outcome # "saved")
              => sess.log[i].after = sess.log[i].before

\* C17 witness: a turn that started from a saved checkpoint and had written
\* trace events has ended without saving.
C17_Witness ==
    \E i \in DOMAIN sess.log :
        /\ sess.log[i].op = "turn"
        /\ sess.log[i].outcome \in {"backend_error", "crashed", "save_error"}
        /\ sess.log[i].to > sess.log[i].from
        /\ sess.log[i].before.kind = "json"
        /\ sess.log[i].before.payload.fields["revision"] = JInt(1)

\* C18: every turn writes its events to a trace file to which no earlier turn
\* of the session has written, also after a turn that ended without saving.
C18_FreshTraceFilePerTurn ==
    (sess.op = "turn" /\ Len(trace) > sess.base) =>
        \A i \in DOMAIN sess.log :
            (sess.log[i].op = "turn" /\ sess.log[i].to > sess.log[i].from)
                => sess.log[i].run_id # sess.run_id

IsEvent(ev, kind, role) == ev.kind = kind /\ ev.role = role

Count(tr, kind, role) == Cardinality({i \in DOMAIN tr : IsEvent(tr[i], kind, role)})

\* in the trace tr, for the role: as many llm_req as llm_done, every llm_req
\* answered by an llm_done before the next llm_req, every llm_stream between
\* an llm_req and the llm_done that answers it
PairedFor(tr, role) ==
    /\ Count(tr, "llm_req", role) = Count(tr, "llm_done", role)
    /\ \A i \in DOMAIN tr :
          IsEvent(tr[i], "llm_req", role) =>
              \E j \in (i + 1)..Len(tr) :
                  /\ IsEvent(tr[j], "llm_done", role)
                  /\ \A k \in (i + 1)..(j - 1) : ~IsEvent(tr[k], "llm_req", role)
    /\ \A i \in DOMAIN tr :
          IsEvent(tr[i], "llm_stream", role) =>
              \E a \in 1..(i - 1) : \E b \in (i + 1)..Len(tr) :
                  /\ IsEvent(tr[a], "llm_req", role)
                  /\ IsEvent(tr[b], "llm_done", role)
                  /\ \A k \in (a + 1)..(b - 1) :
                        /\ ~IsEvent(tr[k], "llm_req", role)
                        /\ ~IsEvent(tr[k], "llm_done", role)

\* C19: in the trace file of every turn that completes, each role's llm_req
\* and llm_done events are equal in number and paired in order, and every
\* llm_stream lies inside its pair.
C19_RequestsPaired ==
    \A i \in DOMAIN sess.log :
        (sess.log[i].op = "turn" /\ sess.log[i].outcome = "saved")
            => \A r \in DOMAIN DefaultRoles :
                  PairedFor(traces[sess.log[i].run_id], DefaultRoles[r])

\* C20: a failure of backend.complete does not abort the turn: no turn ends
\* by the backend's exception, without its remaining roles and its save.
C20_BackendFailureIsolated ==
    \A i \in DOMAIN sess.log :
        sess.log[i].op = "turn" => sess.log[i].outcome # "backend_error"

\* no entry of the list occurs twice
NoDuplicates(items) ==
    \A i \in 1..Len(items) : \A j \in 1..Len(items) : items[i] = items[j] => i = j

\* C12: at the end of every turn, memory_refs and each capped list of the
\* state hold no string twice, whatever notes the responses carried: a
\* set_goals that repeats an entry, or no notes block at all.
C12_NoDuplicatesAtTurnEnd ==
    pc = "done" =>
        /\ NoDuplicates(state.memory_refs)
        /\ NoDuplicates(state.goals)
        /\ NoDuplicates(state.open_loops)
        /\ NoDuplicates(state.decisions)
        /\ NoDuplicates(state.constraints)
        /\ NoDuplicates(state.memory_tags)

\* C12 witness: a turn has ended in which a role answered with the set_goals
\* ["ship", "fix", "ship"], and the goals are ["ship", "fix"].
C12_Witness ==
    /\ pc = "done"
    /\ R_NOTES_DUP \in menu
    /\ \E i \in DOMAIN trace : trace[i].kind = "notes_patch"
    /\ state.goals = <<"ship", "fix">>

\* C13: after any turn, episode_summary is at most 2000 characters long,
\* whatever set_episode_summary a notes patch carried.
C13_SummaryCapped == pc = "done" => Len(state.episode_summary) <= 2000

-----------------------------------------------------------------------------
(* tools/http_tool.py, tools/http_cache.py, tools/executor.py: http.get     *)
(* called through ToolExecutor.execute_calls, between changes of the        *)
(* granted capabilities.                                                    *)

\* neither run_pipeline nor a session operation is in progress
ToolIdle == PipelineIdle /\ capOp = CapIdle /\ NoSession

\* the urls of the calls: <<scheme, "://", host, path>>
Urls ==
    { <<"http", "://", "example.com", "/a">>,
      <<"https", "://", "EXAMPLE.com", "/a">>,
      <<"https", "://", "other.org", "/">>,
      <<"ftp", "://", "example.com", "/a">>,
      <<"http", "://", "", "/a">> }

\* str.lower() on the host names of the model
Lower(host) == IF host = "EXAMPLE.com" THEN "example.com" ELSE host

\* _extract_domain: urlparse(url).hostname.lower(), or the ValueError
extract_domain(url) ==
    IF url[1] \notin {"http", "https"}
    THEN [ok |-> FALSE, domain |-> "", error |-> <<"url must be http or https">>]
    ELSE IF url[3] = ""
    THEN [ok |-> FALSE, domain |-> "", error |-> <<"url must include a hostname">>]
    ELSE [ok |-> TRUE, domain |-> Lower(url[3]), error |-> <<>>]

\* _is_allowed without lines 57-58: the allowlist is never consulted
is_allowed_without_allowlist(domain, capabilities, settings) ==
    In(capabilities, "net:" \o domain) \/ In(capabilities, "net")

\* _is_allowed
is_allowed(domain, capabilities, settings) ==
    IF In(capabilities, "net:" \o domain) THEN TRUE
    ELSE IF ~In(capabilities, "net") THEN FALSE
    ELSE IF settings.http_allowlist_enabled
    THEN domain \in settings.http_allowlist
    ELSE TRUE

\* what one call of the handler did and returned: raised, the error, whether
\* the cache was read, whether urlopen was called, and the cache afterwards
HandlerRun(raised, error, cache_hit, read, requested, cache) ==
    [raised |-> raised, error |-> error, cache_hit |-> cache_hit,
     read |-> read, requested |-> requested, cache |-> cache]

\* the handler of http_get_handler(settings) on args {"url": url, "use_cache":
\* use_cache}; fresh: a cached row is younger than the ttl; up: urlopen and
\* the reading of the body succeed
http_get(url, use_cache, st, settings, cache, fresh, up) ==
    Let(extract_domain(url), LAMBDA parsed :
    IF ~parsed.ok
    THEN HandlerRun(TRUE, parsed.error, FALSE, FALSE, FALSE, cache)
    ELSE IF ~is_allowed(parsed.domain, st.capabilities_granted, settings)
    THEN HandlerRun(TRUE, <<"network access ", "denied">>, FALSE, FALSE, FALSE, cache)
    ELSE Let(use_cache /\ settings.has_cache, LAMBDA cached :
         IF cached /\ url \in cache /\ fresh
         THEN HandlerRun(FALSE, <<>>, TRUE, TRUE, FALSE, cache)
         ELSE IF ~up
         THEN HandlerRun(TRUE, <<"<urlopen error>">>, FALSE, cached, TRUE, cache)
         ELSE HandlerRun(FALSE, <<>>, FALSE, cached, TRUE,
                         IF cached THEN cache \cup {url} ELSE cache)))

\* ToolSettings: the allowlist switch, the allowlist, and whether
\* http_cache_path is set
Settings ==
    [http_allowlist_enabled : BOOLEAN,
     http_allowlist : {{}, {"example.com"}},
     has_cache : BOOLEAN]

HttpCaps == {"net", "net:example.com"}

\* execute_calls for one http.get call: the ToolResult and what the handler did
HttpGet(url, use_cache, fresh, up) ==
    /\ pc = "http"
    /\ env.calls < MaxHttpCalls
    /\ LET run == http_get(url, use_cache, state, env.settings, env.cache, fresh, up)
       IN  env' = [env EXCEPT
                     !.calls = @ + 1,
                     !.cache = run.cache,
                     !.last = [called |-> TRUE, url |-> url,
                               granted |-> state.capabilities_granted,
                               ok |-> ~run.raised, error |-> run.error,
                               cache_hit |-> run.cache_hit, read |-> run.read,
                               requested |-> run.requested]]
    /\ UNCHANGED <<state, pc, roleIdx, response, finalResponse, toolCalls,
                   toolResults, trace, results, finalText, hasExecutor,
                   maxToolRounds, menu, roleStartState, executed, capOp, stream,
                   sessionVars>>

\* the granted capabilities change between two calls
HttpGrant(cap) ==
    /\ pc = "http"
    /\ state' = grant_permission(state, cap).state
    /\ state' # state
    /\ UNCHANGED <<pipeVars, capOp, sessionVars>>

HttpRevoke(cap) ==
    /\ pc = "http"
    /\ state' = revoke_permission(state, cap).state
    /\ state' # state
    /\ UNCHANGED <<pipeVars, capOp, sessionVars>>

NotCalled ==
    [called |-> FALSE, url |-> <<>>, granted |-> <<>>, ok |-> FALSE,
     error |-> <<>>, cache_hit |-> FALSE, read |-> FALSE, requested |-> FALSE]

InitHttp ==
    /\ state = FreshState
    /\ pc = "http"
    /\ ToolIdle
    /\ \E settings \in Settings :
          env = [op |-> "http", settings |-> settings, cache |-> {}, calls |-> 0,
                 last |-> NotCalled]

NextHttp ==
    \/ \E url \in Urls : \E use_cache \in BOOLEAN : \E fresh \in BOOLEAN :
          \E up \in BOOLEAN : HttpGet(url, use_cache, fresh, up)
    \/ \E cap \in HttpCaps : HttpGrant(cap)
    \/ \E cap \in HttpCaps : HttpRevoke(cap)

SpecHttp == InitHttp /\ [][NextHttp]_vars

\* the rule of the specification for a domain and the granted capabilities
NetworkAllowed(domain, granted, settings) ==
    \/ In(granted, "net:" \o domain)
    \/ /\ In(granted, "net")
       /\ (~settings.http_allowlist_enabled \/ domain \in settings.http_allowlist)

\* the last call had a url with a domain
CalledWithDomain == env.last.called /\ extract_domain(env.last.url).ok

\* C21: http.get for a url of domain D requests the url or returns the cached
\* content exactly when 'net:D' is granted, or 'net' is granted and the
\* allowlist is off or holds D; otherwise the result is a failure with
\* 'denied' in its error, no request is made and the cache is not read.
C21_HttpGetGated ==
    CalledWithDomain =>
        Let(NetworkAllowed(extract_domain(env.last.url).domain, env.last.granted,
                           env.settings), LAMBDA allowed :
            /\ allowed <=> (env.last.requested \/ env.last.cache_hit)
            /\ ~allowed => /\ ~env.last.ok
                           /\ Contains(env.last.error, <<"denied">>)
                           /\ ~env.last.requested
                           /\ ~env.last.read)

\* C21 witness: the url of the last call is in the cache from a permitted
\* call, no capability is granted any more, and the call was denied.
C21_Witness ==
    /\ CalledWithDomain
    /\ env.last.url \in env.cache
    /\ env.last.granted = <<>>
    /\ ~env.last.ok
    /\ Contains(env.last.error, <<"denied">>)

-----------------------------------------------------------------------------
(* tools/sandbox.py: resolve_under_root; tools/fs_tools.py: _get_path       *)
(* A user path is the sequence of the pieces its string is made of; a path  *)
(* of the file system is the sequence of its names below "/".               *)

PathTokens == {"/", ".", "..", "a", "link", "up", "sandbox"}

UserPaths == UNION {[1..n -> PathTokens] : n \in 0..MaxPathLen}

\* the root handed to the fs tools
ROOT == <<"data", "sandbox">>

\* the directories the model runs in: the symbolic links (path :> target) and
\* where the root really is
Layout(links, real_root) == [links |-> links, real_root |-> real_root]

Layouts ==
    { Layout(<<>>, ROOT),
      Layout(<<"data", "sandbox", "link">> :> <<"etc">>, ROOT),
      Layout(<<"data", "sandbox", "up">> :> <<"data">>, ROOT),
      Layout((<<"data", "sandbox", "link">> :> <<"data", "sandbox", "a">>)
               @@ (<<"data", "sandbox", "a", "up">> :> <<"etc">>), ROOT),
      Layout((<<"data", "sandbox">> :> <<"srv", "box">>)
               @@ (<<"srv", "box", "link">> :> <<"data", "sandbox", "a">>),
             <<"srv", "box">>) }

\* str.split("/") without the empty pieces
RECURSIVE Split(_, _, _)
Split(tokens, seg, acc) ==
    IF tokens = <<>> THEN IF seg = "" THEN acc ELSE Append(acc, seg)
    ELSE IF tokens[1] = "/"
    THEN Split(Tail(tokens), "", IF seg = "" THEN acc ELSE Append(acc, seg))
    ELSE Split(Tail(tokens), seg \o tokens[1], acc)

\* Path(user_path): is_absolute() and the parts, "." dropped
PurePath(user_path) ==
    [absolute |-> user_path # <<>> /\ user_path[1] = "/",
     parts |-> SelectSeq(Split(user_path, "", <<>>), LAMBDA part : part # ".")]

\* the parts walked with ".." taken off and no link followed
RECURSIVE NormPath(_, _, _)
NormPath(cur, parts, links) ==
    IF parts = <<>> THEN cur
    ELSE IF parts[1] = ".."
    THEN NormPath(IF cur = <<>> THEN cur ELSE SubSeq(cur, 1, Len(cur) - 1),
                  Tail(parts), links)
    ELSE NormPath(Append(cur, parts[1]), Tail(parts), links)

\* Path.resolve(strict=False) from the directory cur: ".." goes to the parent
\* of what has been resolved so far, a symbolic link is replaced by its target
RECURSIVE Resolve(_, _, _)
Resolve(cur, parts, links) ==
    IF parts = <<>> THEN cur
    ELSE IF parts[1] = ".."
    THEN Resolve(IF cur = <<>> THEN cur ELSE SubSeq(cur, 1, Len(cur) - 1),
                 Tail(parts), links)
    ELSE IF Append(cur, parts[1]) \in DOMAIN links
    THEN Resolve(<<>>, links[Append(cur, parts[1])] \o Tail(parts), links)
    ELSE Resolve(Append(cur, parts[1]), Tail(parts), links)

\* Path.relative_to succeeds
is_within_root(root, target) ==
    Len(target) >= Len(root) /\ SubSeq(target, 1, Len(root)) = root

NoPath == [found |-> FALSE, path |-> <<>>]

resolve_under_root(root, user_path, links) ==
    IF user_path = <<>> THEN NoPath
    ELSE IF PurePath(user_path).absolute THEN NoPath
    ELSE Let(Resolve(<<>>, root, links), LAMBDA root_abs :
         Let(Resolve(<<>>, root_abs \o PurePath(user_path).parts, links),
             LAMBDA cand :
             IF is_within_root(root_abs, cand)
             THEN [found |-> TRUE, path |-> cand] ELSE NoPath))

\* _get_path: the alias /sandbox is rewritten before the path is resolved
get_path(root, user_path, links) ==
    Let(IF user_path = <<"/", "sandbox">> THEN <<".">>
        ELSE IF Len(user_path) >= 3 /\ SubSeq(user_path, 1, 3) = <<"/", "sandbox", "/">>
        THEN SubSeq(user_path, 4, Len(user_path))
        ELSE user_path, LAMBDA rewritten :
        Let(resolve_under_root(root, rewritten, links), LAMBDA resolved :
            IF resolved.found
            THEN [raised |-> FALSE, path |-> resolved.path, error |-> <<>>]
            ELSE [raised |-> TRUE, path |-> <<>>,
                  error |-> <<"path escapes sandbox">>]))

\* resolve_under_root(root, user_path)
ResolveUnderRoot(user_path) ==
    /\ pc = "path"
    /\ ~env.called
    /\ env' = [env EXCEPT !.called = TRUE, !.fn = "resolve_under_root",
                          !.user_path = user_path,
                          !.resolved = resolve_under_root(ROOT, user_path,
                                                          env.layout.links)]
    /\ UNCHANGED <<state, pc, roleIdx, response, finalResponse, toolCalls,
                   toolResults, trace, results, finalText, hasExecutor,
                   maxToolRounds, menu, roleStartState, executed, capOp, stream,
                   sessionVars>>

\* an fs tool resolves the path of its arguments
GetPath(user_path) ==
    /\ pc = "path"
    /\ ~env.called
    /\ LET got == get_path(ROOT, user_path, env.layout.links)
       IN  env' = [env EXCEPT !.called = TRUE, !.fn = "_get_path",
                              !.user_path = user_path,
                              !.resolved = [found |-> ~got.raised,
                                            path |-> got.path]]
    /\ UNCHANGED <<state, pc, roleIdx, response, finalResponse, toolCalls,
                   toolResults, trace, results, finalText, hasExecutor,
                   maxToolRounds, menu, roleStartState, executed, capOp, stream,
                   sessionVars>>

InitPath ==
    /\ state = FreshState
    /\ pc = "path"
    /\ ToolIdle
    /\ \E layout \in Layouts :
          env = [op |-> "path", layout |-> layout, called |-> FALSE, fn |-> "",
                 user_path |-> <<>>, resolved |-> NoPath]

NextPath ==
    \/ ~env.called /\ \E user_path \in UserPaths : ResolveUnderRoot(user_path)
    \/ ~env.called /\ \E user_path \in UserPaths : GetPath(user_path)

SpecPath == InitPath /\ [][NextPath]_vars

\* the path names a place as it is: no "." or "..", and no part of it is a
\* symbolic link
IsRealPath(path, links) ==
    /\ \A i \in 1..Len(path) : path[i] \notin {".", ".."}
    /\ \A i \in 1..Len(path) : SubSeq(path, 1, i) \notin DOMAIN links

\* the path is the directory or below it
Inside(dir, path) == Len(path) >= Len(dir) /\ SubSeq(path, 1, Len(dir)) = dir

\* C22 as stated: whatever resolve_under_root and _get_path return is null or
\* a real path strictly inside the root, absolute inputs give null, and the
\* alias forms are judged after the rewriting.
C22_StrictlyInsideRoot ==
    (env.called /\ env.resolved.found) =>
        /\ IsRealPath(env.resolved.path, env.layout.links)
        /\ Inside(env.layout.real_root, env.resolved.path)
        /\ env.resolved.path # env.layout.real_root

\* C22 amended: whatever resolve_under_root and _get_path return is null or a
\* real path that is the root or lies inside it; resolve_under_root gives null
\* for every absolute input, and _get_path for every absolute input but the
\* alias forms /sandbox and /sandbox/<tail>.
C22_InsideRootOrRoot ==
    env.called =>
        /\ env.resolved.found =>
              /\ IsRealPath(env.resolved.path, env.layout.links)
              /\ Inside(env.layout.real_root, env.resolved.path)
        /\ (env.user_path # <<>> /\ env.user_path[1] = "/"
              /\ ~(env.fn = "_get_path" /\ Len(env.user_path) >= 2
                     /\ env.user_path[2] = "sandbox"
                     /\ (Len(env.user_path) = 2 \/ env.user_path[3] = "/")))
              => ~env.resolved.found

\* C22 witness: a path through a symbolic link that leaves the root was
\* refused, in an fs tool called with the alias form.
C22_Witness ==
    /\ env.called
    /\ env.fn = "_get_path"
    /\ env.user_path = <<"/", "sandbox", "/", "link">>
    /\ env.layout.links # <<>>
    /\ Resolve(<<>>, <<"data", "sandbox", "link">>, env.layout.links) = <<"etc">>
    /\ ~env.resolved.found

-----------------------------------------------------------------------------
(* tools/sandbox.py: validate_shell_cmd; tools/shell_tool.py: shell.exec    *)
(* A command is the sequence of its characters, a word such as "echo"       *)
(* standing for its letters.                                                *)

BACKSLASH == "\\"
DQUOTE == "\""
SQUOTE == "'"
\* the grave accent, which a string of the model cannot hold
BACKTICK == "<grave>"

CmdPieces == {"echo", "sudo", SP, BACKSLASH, DQUOTE, SQUOTE, ";"}

Commands == UNION {[1..n -> CmdPieces] : n \in 0..MaxCmdLen}

\* shell_tool.py: the words of ALLOWED_PREFIXES, and the entries of
\* DENY_SUBSTRINGS that the pieces above can spell
ALLOWED_PREFIXES ==
    {<<"ls">>, <<"cat">>, <<"echo">>, <<"pwd">>, <<"python">>,
     <<"pytest">>, <<"rg">>, <<"grep">>, <<"sed">>, <<"head">>, <<"tail">>}

DENY_SUBSTRINGS == {<<"sudo">>}

\* lines 72-85 with every quote character read as it stands, a backslash
\* before it or not: TRUE when a metacharacter is found
RECURSIVE HasMetacharacter(_, _)
HasMetacharacter(s, in_quote) ==
    IF s = <<>> THEN FALSE
    ELSE IF s[1] \in {SQUOTE, DQUOTE}
    THEN HasMetacharacter(Tail(s), IF in_quote = s[1] THEN ""
                                   ELSE IF in_quote = "" THEN s[1]
                                   ELSE in_quote)
    ELSE IF s[1] \in {"$", BACKTICK, NL, "|", "&", ">", "<"} THEN TRUE
    ELSE IF s[1] = ";" /\ in_quote = "" THEN TRUE
    ELSE HasMetacharacter(Tail(s), in_quote)

\* shlex.split(s): POSIX word splitting. mode is "" outside quotes or the
\* open quote character; token is the word being read, started once a
\* character or a quote has been seen
RECURSIVE ShlexSplit(_, _, _, _, _)
ShlexSplit(s, mode, token, started, tokens) ==
    IF s = <<>>
    THEN IF mode # "" THEN [ok |-> FALSE, tokens |-> <<>>]
         ELSE [ok |-> TRUE,
               tokens |-> IF started THEN Append(tokens, token) ELSE tokens]
    ELSE IF mode = ""
    THEN IF s[1] \in Whitespace
         THEN ShlexSplit(Tail(s), "", <<>>, FALSE,
                         IF started THEN Append(tokens, token) ELSE tokens)
         ELSE IF s[1] = BACKSLASH
         THEN IF Len(s) = 1 THEN [ok |-> FALSE, tokens |-> <<>>]
              ELSE ShlexSplit(SubSeq(s, 3, Len(s)), "", Append(token, s[2]),
                              TRUE, tokens)
         ELSE IF s[1] \in {SQUOTE, DQUOTE}
         THEN ShlexSplit(Tail(s), s[1], token, TRUE, tokens)
         ELSE ShlexSplit(Tail(s), "", Append(token, s[1]), TRUE, tokens)
    ELSE IF s[1] = mode
    THEN ShlexSplit(Tail(s), "", token, TRUE, tokens)
    ELSE IF mode = DQUOTE /\ s[1] = BACKSLASH
    THEN IF Len(s) = 1 THEN [ok |-> FALSE, tokens |-> <<>>]
         ELSE IF s[2] \in {DQUOTE, BACKSLASH}
         THEN ShlexSplit(SubSeq(s, 3, Len(s)), mode, Append(token, s[2]),
                         TRUE, tokens)
         ELSE ShlexSplit(SubSeq(s, 3, Len(s)), mode,
                         token \o <<BACKSLASH, s[2]>>, TRUE, tokens)
    ELSE ShlexSplit(Tail(s), mode, Append(token, s[1]), TRUE, tokens)

\* tok.startswith(bad)
TokenStartsWith(tok, bad) ==
    Len(tok) >= Len(bad) /\ SubSeq(tok, 1, Len(bad)) = bad

Verdict(ok, reason) == [ok |-> ok, reason |-> reason]

validate_shell_cmd(cmd, allowed_prefixes, deny_substrings) ==
    Let(Strip(cmd), LAMBDA s :
    IF s = <<>> THEN Verdict(FALSE, "empty command")
    ELSE IF HasMetacharacter(s, "")
    THEN Verdict(FALSE, "shell metacharacters are not allowed")
    ELSE Let(ShlexSplit(s, "", <<>>, FALSE, <<>>), LAMBDA split :
         IF ~split.ok THEN Verdict(FALSE, "failed to parse command")
         ELSE IF split.tokens = <<>> THEN Verdict(FALSE, "empty command")
         ELSE IF split.tokens[1] \notin allowed_prefixes
         THEN Verdict(FALSE, "command not allowed")
         ELSE IF \E i \in 1..Len(split.tokens) : split.tokens[i] \in deny_substrings
         THEN Verdict(FALSE, "disallowed token")
         ELSE IF \E i \in 1..Len(split.tokens) : \E bad \in deny_substrings :
                    TokenStartsWith(split.tokens[i], bad)
         THEN Verdict(FALSE, "disallowed token prefix")
         ELSE Verdict(TRUE, "")))

\* /bin/sh -c cmd, the shell of subprocess.run(cmd, shell=True): the positions
\* of the characters that no backslash and no quote takes the meaning from.
\* Outside quotes a backslash quotes the next character; between double
\* quotes it does so before a double quote or a backslash; between single
\* quotes nothing does.
RECURSIVE ShUnquoted(_, _, _, _)
ShUnquoted(s, i, mode, acc) ==
    IF i > Len(s) THEN acc
    ELSE IF mode = ""
    THEN IF s[i] = BACKSLASH THEN ShUnquoted(s, i + 2, "", acc)
         ELSE IF s[i] \in {SQUOTE, DQUOTE} THEN ShUnquoted(s, i + 1, s[i], acc)
         ELSE ShUnquoted(s, i + 1, "", acc \cup {i})
    ELSE IF s[i] = mode THEN ShUnquoted(s, i + 1, "", acc)
    ELSE IF mode = DQUOTE /\ s[i] = BACKSLASH /\ i < Len(s)
              /\ s[i + 1] \in {DQUOTE, BACKSLASH}
    THEN ShUnquoted(s, i + 2, mode, acc)
    ELSE ShUnquoted(s, i + 1, mode, acc)

\* whether a word stands between position lo and the cut at c
ShHasWord(cmd, lo, c) ==
    \E i \in (lo + 1)..(c - 1) : cmd[i] \notin Whitespace

\* the simple commands the shell runs one after the other: the command is cut
\* at every unquoted ";", and a piece with a word in it is run; a ";" with no
\* word before it is a syntax error and the shell runs nothing
sh_commands(cmd) ==
    Let({i \in ShUnquoted(cmd, 1, "", {}) : cmd[i] = ";"}, LAMBDA cuts :
        Let([c \in cuts \cup {Len(cmd) + 1} |->
                 CHOOSE m \in {0} \cup {k \in cuts : k < c} :
                     \A k \in cuts : k < c => k <= m], LAMBDA prev :
            IF \E c \in cuts : ~ShHasWord(cmd, prev[c], c) THEN 0
            ELSE Cardinality({c \in DOMAIN prev :
                                  ShHasWord(cmd, prev[c], c)})))

\* the handler of shell_exec_handler(root) on {"cmd": cmd}
ShellExec(cmd) ==
    /\ pc = "shell"
    /\ env' = [env EXCEPT
                 !.called = TRUE,
                 !.cmd = cmd,
                 !.verdict = validate_shell_cmd(cmd, ALLOWED_PREFIXES, DENY_SUBSTRINGS),
                 !.ran = IF validate_shell_cmd(cmd, ALLOWED_PREFIXES,
                                               DENY_SUBSTRINGS).ok
                         THEN sh_commands(cmd) ELSE 0]
    /\ UNCHANGED <<state, pc, roleIdx, response, finalResponse, toolCalls,
                   toolResults, trace, results, finalText, hasExecutor,
                   maxToolRounds, menu, roleStartState, executed, capOp, stream,
                   sessionVars>>

InitShell ==
    /\ state = FreshState
    /\ pc = "shell"
    /\ ToolIdle
    /\ env = [op |-> "shell", called |-> FALSE, cmd |-> <<>>,
              verdict |-> Verdict(FALSE, ""), ran |-> 0]

NextShell == ~env.called /\ \E cmd \in Commands : ShellExec(cmd)

SpecShell == InitShell /\ [][NextShell]_vars

\* C23: a command that validate_shell_cmd accepts has no unquoted
\* metacharacter under the quoting rules of the shell that runs it, and
\* shell.exec runs no second program after the first.
C23_NoUnquotedMetacharacter ==
    (env.called /\ env.verdict.ok) =>
        /\ \A i \in ShUnquoted(env.cmd, 1, "", {}) :
              env.cmd[i] \notin {";", "|", "&", ">", "<", BACKTICK, "$", NL}
        /\ env.ran <= 1

-----------------------------------------------------------------------------
(* extract_tool_calls on its own: the canonical block of a list of calls.  *)

\* what stands before and after the block
Intros == {<<>>, <<"Intro", NL>>}
Outros == {<<>>, <<NL, "Outro">>}

\* the text of the test: intro, START_MARKER, json.dumps(payload), END_MARKER,
\* outro
CanonicalText(intro, calls, outro) ==
    intro \o TOOLS_START \o <<NL, json_dumps(calls), NL>> \o TOOLS_END \o outro

\* tool_calls.extract_tool_calls(text) on the canonical text of calls
ExtractToolCalls(intro, calls, outro) ==
    /\ pc = "parse"
    /\ env' = [env EXCEPT
                 !.called = TRUE,
                 !.form = "canonical",
                 !.intro = intro,
                 !.payload = calls,
                 !.outro = outro,
                 !.out = extract_tool_calls(CanonicalText(intro, calls, outro))]
    /\ UNCHANGED <<state, pc, roleIdx, response, finalResponse, toolCalls,
                   toolResults, trace, results, finalText, hasExecutor,
                   maxToolRounds, menu, roleStartState, executed, capOp, stream,
                   sessionVars>>

\* responses that are one bare JSON document
BareDocs == {DOC_BARE, DOC_BARE_SYS, DOC_BARE_IDS}

\* tool_calls.extract_tool_calls(text) on a text without markers
ExtractBareToolCalls(doc) ==
    /\ pc = "parse"
    /\ env' = [env EXCEPT
                 !.called = TRUE,
                 !.form = "bare",
                 !.intro = <<doc>>,
                 !.out = extract_tool_calls(<<doc>>)]
    /\ UNCHANGED <<state, pc, roleIdx, response, finalResponse, toolCalls,
                   toolResults, trace, results, finalText, hasExecutor,
                   maxToolRounds, menu, roleStartState, executed, capOp, stream,
                   sessionVars>>

InitParse ==
    /\ state = FreshState
    /\ pc = "parse"
    /\ ToolIdle
    /\ env = [op |-> "parse", called |-> FALSE, form |-> "", intro |-> <<>>,
              payload |-> <<>>, outro |-> <<>>, out |-> NoCalls(<<>>, <<>>)]

NextParse ==
    /\ ~env.called
    /\ \/ \E intro \in Intros, calls \in CallLists, outro \in Outros :
              ExtractToolCalls(intro, calls, outro)
       \/ \E doc \in BareDocs : ExtractBareToolCalls(doc)

SpecParse == InitParse /\ [][NextParse]_vars

\* C24: extract_tool_calls on the canonical block of a well-formed list of
\* calls returns exactly that list, in order, with the same ids and args, and
\* the text with the block removed, whatever the tool names are.
C24_CanonicalRoundTrip ==
    (env.called /\ env.form = "canonical") =>
        /\ env.out.calls = env.payload
        /\ env.out.text = env.intro \o env.outro

\* C28: the tool calls the parser produces for one response have pairwise
\* distinct ids, for a canonical block and for coerced entries alike.
C28_CallIdsDistinct ==
    env.called =>
        \A i, j \in 1..Len(env.out.calls) :
            env.out.calls[i].id = env.out.calls[j].id => i = j

-----------------------------------------------------------------------------
(* extract_notes on its own: blocks with malformed and mistyped payloads.  *)

NOT_JSON == "{not-json]"

\* [doc, name, kind]: a payload, and the field and kind of value it was built
\* from
NotesPayloads ==
    {[doc |-> NotesDocText(name, kind), name |-> name, kind |-> kind] :
        name \in KnownFields, kind \in ValueKinds}
    \cup {[doc |-> d, name |-> "", kind |-> ""] :
               d \in {NOT_JSON, json_dumps(<<>>), DOC_NOTES}}

NotesText(intro, doc, outro) ==
    intro \o NOTES_START \o <<NL, doc, NL>> \o NOTES_END \o outro

\* notes.extract_notes(text)
ExtractNotes(intro, payload, outro) ==
    /\ pc = "notes"
    /\ env' = [env EXCEPT
                 !.called = TRUE,
                 !.payload = payload,
                 !.text = NotesText(intro, payload.doc, outro),
                 !.out = extract_notes(NotesText(intro, payload.doc, outro))]
    /\ UNCHANGED <<state, pc, roleIdx, response, finalResponse, toolCalls,
                   toolResults, trace, results, finalText, hasExecutor,
                   maxToolRounds, menu, roleStartState, executed, capOp, stream,
                   sessionVars>>

InitNotes ==
    /\ state = FreshState
    /\ pc = "notes"
    /\ ToolIdle
    /\ env = [op |-> "notes", called |-> FALSE,
              payload |-> [doc |-> "", name |-> "", kind |-> ""],
              text |-> <<>>, out |-> NoNotes(<<>>)]

NextNotes ==
    ~env.called /\ \E intro \in Intros, payload \in NotesPayloads, outro \in Outros :
                       ExtractNotes(intro, payload, outro)

SpecNotes == InitNotes /\ [][NextNotes]_vars

\* the payload is not JSON, is not an object, or gives a known field a value
\* that is neither null nor of the field's type
Malformed(payload) == payload.doc = NOT_JSON
NotObject(payload) == payload.doc = json_dumps(<<>>)
Mistyped(payload) ==
    \/ payload.name \in PatchListFields /\ payload.kind \notin {"null", "list_str"}
    \/ payload.name = "set_episode_summary" /\ payload.kind \notin {"null", "str"}

\* C25: extract_notes returns the input text unchanged and no patch when the
\* block's JSON is malformed, is not an object, or a known field has the wrong
\* type, set_episode_summary included.
C25_MistypedPatchRejected ==
    (env.called /\ (Malformed(env.payload) \/ NotObject(env.payload)
                        \/ Mistyped(env.payload))) =>
        /\ ~env.out.some
        /\ env.out.text = env.text

-----------------------------------------------------------------------------
(* The TOOL_RESULTS block of the second prompt.                            *)

\* the cap on the block
TOOL_RESULTS_MAX_CHARS == 20000

\* tools/results.py: output is [tool, text] or NoOutput, error is "" for None
NoOutput == [tool |-> "", text |-> ""]
ToolResult(id, tool, ok, output, error) ==
    [id |-> id, tool |-> tool, ok |-> ok, output |-> output, error |-> error]

\* lengths of the text a tool returns; fs.read_text and shell.exec return at
\* most 20000 characters
TextLens == {0, 5, 12000, 20000}

\* the results of the call with the id: a read file, a command's output, a
\* fetched page, or a failure
ResultsFor(id) ==
    {ToolResult(id, tool, TRUE, [tool |-> tool, text |-> Rep("a", n)], "") :
        tool \in {"fs.read_text", "shell.exec", "http.get"}, n \in TextLens}
    \cup {ToolResult(id, "fs.read_text", FALSE, NoOutput, "path is not a file")}

ResultLists ==
    {<<>>} \cup {<<r>> : r \in ResultsFor("t1")}
           \cup {<<r1, r2>> : r1 \in ResultsFor("t1"), r2 \in ResultsFor("t2")}

\* json.dumps of the output dict of a handler
DumpOutput(output) ==
    CASE output.tool = "fs.read_text" ->
            "{\"path\": \"f\", \"text\": " \o DumpStr(output.text) \o "}"
      [] output.tool = "shell.exec" ->
            "{\"returncode\": 0, \"stdout\": " \o DumpStr(output.text)
                \o ", \"stderr\": \"\"}"
      [] output.tool = "http.get" ->
            "{\"url\": \"http://a\", \"status\": 200, \"text\": "
                \o DumpStr(output.text) \o ", \"cache_hit\": false}"
      [] OTHER -> "null"

\* json.dumps(asdict(result), ensure_ascii=False)
DumpResult(result) ==
    "{\"id\": " \o DumpStr(result.id)
        \o ", \"tool\": " \o DumpStr(result.tool)
        \o ", \"ok\": " \o (IF result.ok THEN "true" ELSE "false")
        \o ", \"output\": " \o DumpOutput(result.output)
        \o ", \"error\": "
        \o (IF result.error = "" THEN "null" ELSE DumpStr(result.error))
        \o ", \"metadata\": "
        \o (IF result.tool = "http.get"
            THEN "{\"url\": \"http://a\", \"cache_hit\": false}" ELSE "null")
        \o "}"

\* "\n".join(lines)
RECURSIVE JoinLines(_)
JoinLines(lines) ==
    IF lines = <<>> THEN ""
    ELSE IF Len(lines) = 1 THEN lines[1]
    ELSE lines[1] \o NL \o JoinLines(Tail(lines))

format_tool_results(tool_results) ==
    "TOOL_RESULTS:" \o NL
        \o JoinLines([i \in 1..Len(tool_results) |-> DumpResult(tool_results[i])])

\* run_pipeline from the last tool_done to the second llm_req: the block is
\* formatted and appended to the prompt; events holds what is written to the
\* trace in between
FormatToolResults(tool_results) ==
    /\ pc = "format"
    /\ env' = [env EXCEPT
                 !.called = TRUE,
                 !.tool_results = tool_results,
                 !.tool_results_block = format_tool_results(tool_results),
                 !.events = <<>>]
    /\ UNCHANGED <<state, pc, roleIdx, response, finalResponse, toolCalls,
                   toolResults, trace, results, finalText, hasExecutor,
                   maxToolRounds, menu, roleStartState, executed, capOp, stream,
                   sessionVars>>

InitFormat ==
    /\ state = FreshState
    /\ pc = "format"
    /\ ToolIdle
    /\ env = [op |-> "format", called |-> FALSE, tool_results |-> <<>>,
              tool_results_block |-> "", events |-> <<>>]

NextFormat ==
    ~env.called /\ \E tool_results \in ResultLists : FormatToolResults(tool_results)

SpecFormat == InitFormat /\ [][NextFormat]_vars

\* the plain serialization of the results
PlainBlock == format_tool_results(env.tool_results)

\* C26: the TOOL_RESULTS block is never longer than TOOL_RESULTS_MAX_CHARS;
\* when the plain serialization exceeds the cap a tool_result_truncated event
\* is written, and below the cap the block is the plain serialization and no
\* such event is written.
C26_ToolResultsBlockCapped ==
    env.called =>
        /\ Len(env.tool_results_block) <= TOOL_RESULTS_MAX_CHARS
        /\ Len(PlainBlock) > TOOL_RESULTS_MAX_CHARS =>
               \E i \in 1..Len(env.events) :
                   env.events[i].kind = "tool_result_truncated"
        /\ Len(PlainBlock) <= TOOL_RESULTS_MAX_CHARS =>
               /\ env.tool_results_block = PlainBlock
               /\ env.events = <<>>

-----------------------------------------------------------------------------
(* Two save_checkpoint calls for one session, running at the same time.    *)
(* Both use the temporary file <session>.json.tmp.  A file name refers to  *)
(* an inode (0: no such file), and an open handle keeps its inode.         *)

Writers == {"A", "B"}
MaxInodes == 3
\* http.get calls in a run of the cache, and the seconds its clock runs
MaxCacheCalls == 3
\* the short messages of a history, and the length of a long message
MaxOlder == 10
\* the events of a trace handed to the autopsy analyzer
MaxEvents == 3
\* the admin commands run beside a turn
MaxAdminOps == 2
LongLen == 3000
MaxNow == 3

\* json.dumps(payload) of the writer, in pieces
PayloadOf(w, n) == [i \in 1..n |-> <<w, i>>]
OLD_PAYLOAD == <<<<"old", 1>>>>

\* write(data) at offset 0 of a file with the content
WriteAt(content, data) ==
    data \o SubSeq(content, Len(data) + 1, Len(content))

SaveOthers ==
    UNCHANGED <<state, pc, roleIdx, response, finalResponse, toolCalls,
                toolResults, trace, results, finalText, hasExecutor,
                maxToolRounds, menu, roleStartState, executed, capOp, stream,
                sessionVars>>

\* line 27: temp_path.open("w") makes the temporary file or empties the one
\* that is there
SaveOpenBy(w) ==
    /\ pc = "save2"
    /\ env.writers[w].pc = "open"
    /\ \E inode \in {IF env.names.tmp = 0 THEN env.used + 1 ELSE env.names.tmp} :
          env' = [env EXCEPT
                    !.names.tmp = inode,
                    !.used = IF env.names.tmp = 0 THEN @ + 1 ELSE @,
                    !.data[inode] = <<>>,
                    !.writers[w].handle = inode,
                    !.writers[w].pc = "write"]
    /\ SaveOthers

\* line 28: handle.write(...) fills the handle's buffer
SaveWriteBy(w) ==
    /\ pc = "save2"
    /\ env.writers[w].pc = "write"
    /\ env' = [env EXCEPT !.writers[w].pc = "sync"]
    /\ SaveOthers

\* lines 29-30: flush and fsync write the buffer at the start of the file the
\* handle refers to
SaveSyncBy(w) ==
    /\ pc = "save2"
    /\ env.writers[w].pc = "sync"
    /\ env' = [env EXCEPT
                 !.data[env.writers[w].handle] = WriteAt(@, env.writers[w].payload),
                 !.writers[w].pc = "replace"]
    /\ SaveOthers

\* line 31: temp_path.replace(path) renames the temporary file, or raises
\* FileNotFoundError when there is none
SaveReplaceBy(w) ==
    /\ pc = "save2"
    /\ env.writers[w].pc = "replace"
    /\ env' = IF env.names.tmp = 0
              THEN [env EXCEPT !.writers[w].pc = "raised"]
              ELSE [env EXCEPT !.names = [json |-> env.names.tmp, tmp |-> 0],
                               !.writers[w].pc = "returned"]
    /\ SaveOthers

InitSave2 ==
    /\ state = FreshState
    /\ pc = "save2"
    /\ ToolIdle
    /\ \E exists \in BOOLEAN, la, lb \in 1..MaxPayloadLen :
          env = [op |-> "save2",
                 names |-> [json |-> IF exists THEN 1 ELSE 0, tmp |-> 0],
                 used |-> IF exists THEN 1 ELSE 0,
                 data |-> [i \in 1..MaxInodes |->
                              IF exists /\ i = 1 THEN OLD_PAYLOAD ELSE <<>>],
                 writers |-> [w \in Writers |->
                                 [pc |-> "open", handle |-> 0,
                                  payload |-> PayloadOf(w, IF w = "A" THEN la ELSE lb)]]]

NextSave2 ==
    \E w \in Writers :
        SaveOpenBy(w) \/ SaveWriteBy(w) \/ SaveSyncBy(w) \/ SaveReplaceBy(w)

SpecSave2 == InitSave2 /\ [][NextSave2]_vars

\* both saves have ended
BothEnded == \A w \in Writers : env.writers[w].pc \in {"returned", "raised"}

\* the content of the checkpoint file
CheckpointContent == env.data[env.names.json]

\* C27: after two concurrent saves of one session the checkpoint file is the
\* complete payload of one of the two, and neither save has failed because
\* the other one renamed the shared temporary file.
C27_ConcurrentSavesLastWriterWins ==
    (env.op = "save2" /\ BothEnded) =>
        /\ env.names.json # 0
        /\ \E w \in Writers : CheckpointContent = env.writers[w].payload
        /\ \A w \in Writers : env.writers[w].pc = "returned"

-----------------------------------------------------------------------------
(* Turns of a session, as the stored checkpoint shows them.                *)

\* the checkpoint run_turn finds in the file (a new one when there is none)
Stored(file) == load_or_create(file, 0).checkpoint

\* the turn of the log's i-th record returned normally
SavedTurn(i) == sess.log[i].op = "turn" /\ sess.log[i].outcome = "saved"

\* the session began without a checkpoint file and every operation so far
\* was a turn that returned normally
FreshAndAllSaved ==
    /\ pc = "idle"
    /\ sess.log # <<>>
    /\ sess.log[1].before = Absent
    /\ \A i \in DOMAIN sess.log : SavedTurn(i)

\* C29: a run_turn that returns normally raises the stored revision by 1 and
\* appends (user, user_text) and (assistant, final_text) to the stored
\* recent_messages; after N such turns on a fresh session the revision is N,
\* the k-th turn wrote the trace file rev-k, and recent_messages holds 2N
\* entries alternating user, assistant.
C29_TurnAdvancesCheckpoint ==
    /\ \A i \in DOMAIN sess.log :
          SavedTurn(i) =>
              /\ Stored(sess.log[i].after).revision
                    = Stored(sess.log[i].before).revision + 1
              /\ Len(Stored(sess.log[i].after).recent_messages)
                    = Len(Stored(sess.log[i].before).recent_messages) + 2
    /\ (pc = "idle" /\ sess.log # <<>> /\ SavedTurn(Len(sess.log))) =>
          Stored(LastEnded.after).recent_messages
              = Stored(LastEnded.before).recent_messages
                  \o <<ChatMessage("user", USER_TEXT),
                       ChatMessage("assistant", finalText)>>
    /\ FreshAndAllSaved =>
          /\ Stored(files.json).revision = Len(sess.log)
          /\ \A k \in DOMAIN sess.log :
                /\ sess.log[k].run_id = k
                /\ k \in DOMAIN traces
                /\ Let(Stored(sess.log[k].after).trace_tail, LAMBDA tail :
                       tail # <<>> /\ tail[Len(tail)] = TraceName(k))
          /\ Len(Stored(files.json).recent_messages) = 2 * Len(sess.log)
          /\ \A m \in DOMAIN Stored(files.json).recent_messages :
                Stored(files.json).recent_messages[m].role
                    = IF m % 2 = 1 THEN "user" ELSE "assistant"

\* C29 witness: two turns on a fresh session have returned.
C29_Witness ==
    /\ FreshAndAllSaved
    /\ Len(sess.log) = MaxTurns
    /\ Stored(files.json).revision = MaxTurns

\* the last n entries of a list, all of them when it has fewer
LastOf(items, n) ==
    IF Len(items) > n THEN SubSeq(items, Len(items) - n + 1, Len(items))
    ELSE items

\* C30: after every successful turn trace_tail has at most 20 entries, its
\* last entry is the name of the trace file the turn wrote, and the entries
\* are those of before in their order followed by the new one, the oldest
\* dropped first.
C30_TraceTailCapped ==
    \A i \in DOMAIN sess.log :
        SavedTurn(i) =>
            Let(Stored(sess.log[i].after).trace_tail, LAMBDA tail :
                /\ Len(tail) <= 20
                /\ tail # <<>>
                /\ tail[Len(tail)] = TraceName(sess.log[i].run_id)
                /\ sess.log[i].run_id \in DOMAIN traces
                /\ tail = LastOf(Append(Stored(sess.log[i].before).trace_tail,
                                        TraceName(sess.log[i].run_id)), 20))

\* C30 witness: a turn that found 20 entries in trace_tail has returned, and
\* the oldest of them is gone.
C30_Witness ==
    \E i \in DOMAIN sess.log :
        /\ SavedTurn(i)
        /\ Len(Stored(sess.log[i].before).trace_tail) = 20
        /\ Stored(sess.log[i].before).trace_tail[1] = TraceName(1)
        /\ Stored(sess.log[i].after).trace_tail[1] = TraceName(2)
        /\ Len(Stored(sess.log[i].after).trace_tail) = 20

-----------------------------------------------------------------------------
(* The tool loop of run_pipeline, pipeline.py lines 316-344.               *)

\* the positions of the events of one kind in the turn's trace
Positions(kind) == {k \in 1..Len(trace) : trace[k].kind = kind}

\* the ids of the events of one kind, in the order they were written
RECURSIVE IdsFrom(_, _)
IdsFrom(kind, k) ==
    IF k > Len(trace) THEN <<>>
    ELSE IF trace[k].kind = kind THEN <<trace[k].id>> \o IdsFrom(kind, k + 1)
    ELSE IdsFrom(kind, k + 1)

IsPrefix(s, t) == Len(s) <= Len(t) /\ \A i \in 1..Len(s) : s[i] = t[i]

\* the ids of the calls of the plan the turn runs
PlanIds == [i \in 1..Len(toolCalls) |-> toolCalls[i].id]

\* C31: every tool_start event is followed by the tool_done event of the same
\* id before another tool_start is written (only the call in progress has none
\* yet), also when the tool is unknown or its handler raises; every tool_done
\* closes the tool_start right before it; the calls run one at a time in plan
\* order; and once the loop is between calls the ids started are the ids done.
C31_StartDonePaired ==
    /\ \A k \in Positions("tool_start") :
          \/ k = Len(trace) /\ pc = "tool"
          \/ /\ k < Len(trace)
             /\ trace[k + 1].kind = "tool_done"
             /\ trace[k + 1].id = trace[k].id
    /\ \A k \in Positions("tool_done") :
          /\ k > 1
          /\ trace[k - 1].kind = "tool_start"
          /\ trace[k - 1].id = trace[k].id
    /\ Positions("tool_start") # {} => IsPrefix(IdsFrom("tool_start", 1), PlanIds)
    /\ IsPrefix([i \in 1..Len(executed) |-> executed[i].id],
                IdsFrom("tool_start", 1))
    /\ pc # "tool" =>
          {trace[k].id : k \in Positions("tool_start")}
            = {trace[k].id : k \in Positions("tool_done")}

\* a turn is over in which a plan of two calls ran: the first named an unknown
\* tool, the handler of the second raised
C31_Witness ==
    /\ pc = "done"
    /\ IdsFrom("tool_start", 1) = <<"u1", "u2">>
    /\ \E k \in Positions("tool_done") :
          trace[k].id = "u1" /\ ~trace[k].ok /\ trace[k].tool \notin RegisteredTools
    /\ \E k \in Positions("tool_done") :
          trace[k].id = "u2" /\ ~trace[k].ok /\ trace[k].tool \in RegisteredTools

\* the positions of the events of one kind, in the order they were written
RECURSIVE PositionsFrom(_, _)
PositionsFrom(kind, k) ==
    IF k > Len(trace) THEN <<>>
    ELSE IF trace[k].kind = kind THEN <<k>> \o PositionsFrom(kind, k + 1)
    ELSE PositionsFrom(kind, k + 1)

\* C32 as stated: for a plan of two or more calls, every tool_start event of
\* the plan is written before any tool_done event of the plan.
C32_AllStartsBeforeAnyDone ==
    Len(toolCalls) >= 2 =>
        \A s \in Positions("tool_start") :
            \A d \in Positions("tool_done") : s < d

\* C32 as amended: for a plan of two or more calls, the tool_start event of a
\* call is written before the tool_done event of that call and of every later
\* call of the plan.
C32_StartBeforeOwnAndLaterDones ==
    LET starts == PositionsFrom("tool_start", 1)
        dones == PositionsFrom("tool_done", 1)
    IN  Len(toolCalls) >= 2 =>
            \A i \in DOMAIN starts :
                \A j \in DOMAIN dones : i <= j => starts[i] < dones[j]

\* a turn is over in which both calls of a plan ran and succeeded
C32_Witness ==
    /\ pc = "done"
    /\ Len(toolCalls) >= 2
    /\ IdsFrom("tool_start", 1) = <<"t1", "t2">>
    /\ IdsFrom("tool_done", 1) = <<"t1", "t2">>
    /\ \A k \in Positions("tool_done") : trace[k].ok

-----------------------------------------------------------------------------
(* The actions of a notes patch, capabilities.py lines 56-88.              *)

REVOKE_NET == <<"revoke_permission:", "net">>
CLEAR_PENDING == <<"clear_pending">>

\* C33: when apply_permission_actions is called with a list of actions, a
\* closing revoke_permission:net with net in granted leaves net out of granted,
\* a closing clear_pending leaves pending empty, and neither action is put in
\* the ignored list of the report.
C33_RevokeAndClearApplied ==
    [][\A actions \in SeqsUpTo(ActionStrings, MaxActions) :
          ApplyPermissionActions(actions) =>
              LET report == apply_permission_actions(state, actions)
                  last == IF actions = <<>> THEN <<>> ELSE actions[Len(actions)]
              IN  /\ \A i \in DOMAIN report.ignored :
                        report.ignored[i].action \notin {REVOKE_NET, CLEAR_PENDING}
                  /\ (last = REVOKE_NET /\ In(state.capabilities_granted, "net"))
                        => ~In(state'.capabilities_granted, "net")
                  /\ last = CLEAR_PENDING => state'.capabilities_pending = <<>>]_vars

-----------------------------------------------------------------------------
(* tools/http_cache.py and the cache branch of tools/http_tool.py: calls of *)
(* http.get under default_tool_settings with 'net' granted, while time      *)
(* passes and the server's content changes.                                 *)

CacheUrls == {<<"http", "://", "example.com", "/a">>, <<"https", "://", "other.org", "/">>}
Bodies == {"hello", "changed"}
Ttls == {0, 1, 2}

NoRow == [found |-> FALSE, status |-> 0, text |-> "", stored_ts |-> 0]
Row(status, text, stored_ts) ==
    [found |-> TRUE, status |-> status, text |-> text, stored_ts |-> stored_ts]

\* a cache whose rows expire as soon as their age reaches the ttl
cache_get_expiring_at_ttl(rows, url, now, ttl) ==
    IF ~rows[url].found THEN NoRow
    ELSE IF now - rows[url].stored_ts >= ttl THEN NoRow
    ELSE rows[url]

\* HttpCache.get at time now: the row of the url, or None
cache_get(rows, url, now, ttl) ==
    IF ~rows[url].found THEN NoRow
    ELSE IF now - rows[url].stored_ts > ttl THEN NoRow
    ELSE rows[url]

\* HttpCache.set at time now: the upsert
cache_set(rows, url, status, text, now) ==
    [rows EXCEPT ![url] = Row(status, text, now)]

\* the handler with a cache, lines 94-124; up: urlopen and the reading of the
\* body succeed; body: what the server sends; took: the seconds the request
\* takes
cached_handler(url, use_cache, rows, now, ttl, up, body, took) ==
    Let(IF use_cache THEN cache_get(rows, url, now, ttl) ELSE NoRow, LAMBDA cached :
    IF cached.found
    THEN [raised |-> FALSE, cache_hit |-> TRUE, requests |-> 0,
          status |-> cached.status, text |-> cached.text, rows |-> rows,
          now |-> now]
    ELSE IF ~up
    THEN [raised |-> TRUE, cache_hit |-> FALSE, requests |-> 1, status |-> 0,
          text |-> "", rows |-> rows, now |-> now + took]
    ELSE [raised |-> FALSE, cache_hit |-> FALSE, requests |-> 1, status |-> 200,
          text |-> body,
          rows |-> IF use_cache THEN cache_set(rows, url, 200, body, now + took)
                   ELSE rows,
          now |-> now + took])

NoCachedCall ==
    [called |-> FALSE, url |-> <<>>, use_cache |-> FALSE, at |-> 0, end |-> 0,
     before |-> NoRow, after |-> NoRow,
     ok |-> FALSE, cache_hit |-> FALSE, requests |-> 0, text |-> "", body |-> ""]

InitCache ==
    /\ state = grant_permission(FreshState, "net").state
    /\ pc = "cache"
    /\ ToolIdle
    /\ \E ttl \in Ttls :
          env = [op |-> "cache", ttl |-> ttl, now |-> 0, calls |-> 0,
                 rows |-> [url \in CacheUrls |-> NoRow], last |-> NoCachedCall]

\* execute_calls for one http.get call at time env.now
CachedGet(url, use_cache, up, body, took) ==
    /\ pc = "cache"
    /\ env.calls < MaxCacheCalls
    /\ env.now + took <= MaxNow
    /\ is_allowed(extract_domain(url).domain, state.capabilities_granted,
                  [http_allowlist_enabled |-> FALSE, http_allowlist |-> {},
                   has_cache |-> TRUE])
    /\ LET run == cached_handler(url, use_cache, env.rows, env.now, env.ttl, up,
                                 body, took)
       IN  env' = [env EXCEPT
                     !.calls = @ + 1,
                     !.rows = run.rows,
                     !.now = run.now,
                     !.last = [called |-> TRUE, url |-> url, use_cache |-> use_cache,
                               at |-> env.now, end |-> run.now,
                               before |-> env.rows[url], after |-> run.rows[url],
                               ok |-> ~run.raised, cache_hit |-> run.cache_hit,
                               requests |-> run.requests, text |-> run.text,
                               body |-> body]]
    /\ UNCHANGED <<state, pc, roleIdx, response, finalResponse, toolCalls,
                   toolResults, trace, results, finalText, hasExecutor,
                   maxToolRounds, menu, roleStartState, executed, capOp, stream,
                   sessionVars>>

\* a second passes between two calls
CacheTick ==
    /\ pc = "cache"
    /\ env.now < MaxNow
    /\ env' = [env EXCEPT !.now = @ + 1]
    /\ UNCHANGED <<state, pc, roleIdx, response, finalResponse, toolCalls,
                   toolResults, trace, results, finalText, hasExecutor,
                   maxToolRounds, menu, roleStartState, executed, capOp, stream,
                   sessionVars>>

NextCache ==
    \/ \E url \in CacheUrls : \E use_cache \in BOOLEAN : \E up \in BOOLEAN :
          \E body \in Bodies : \E took \in {0, 1} :
              CachedGet(url, use_cache, up, body, took)
    \/ CacheTick

SpecCache == InitCache /\ [][NextCache]_vars

\* the row of the last call's url was stored at most ttl seconds before the call
WithinTtl ==
    /\ env.last.before.found
    /\ env.last.at - env.last.before.stored_ts <= env.ttl

\* C34: a call of http.get with use_cache=true made within the TTL of the
\* stored response of its url returns the stored text with cache_hit=true and
\* makes no request; a call on a miss or after expiry makes exactly one
\* request, has cache_hit=false and, when the request succeeds, returns the
\* response and stores it under the url with the time of storing, so that a
\* call within the TTL after it is a hit.
C34_CacheHitWithinTtl ==
    (env.last.called /\ env.last.use_cache) =>
        /\ WithinTtl =>
              /\ env.last.ok /\ env.last.cache_hit
              /\ env.last.requests = 0
              /\ env.last.text = env.last.before.text
              /\ env.last.after = env.last.before
        /\ ~WithinTtl =>
              /\ env.last.requests = 1
              /\ ~env.last.cache_hit
              /\ env.last.ok =>
                    /\ env.last.text = env.last.body
                    /\ env.last.after = Row(200, env.last.body, env.last.end)
              /\ ~env.last.ok => env.last.after = env.last.before

\* the third call on a url: the first stored "hello", the second hit it, and
\* now that the row has expired the changed content was fetched and stored
C34_Witness ==
    /\ env.last.called /\ env.last.use_cache /\ env.calls = 3
    /\ env.last.before.found /\ env.last.before.text = "hello"
    /\ env.last.at - env.last.before.stored_ts = env.ttl + 1
    /\ env.last.ok /\ ~env.last.cache_hit /\ env.last.text = "changed"
    /\ env.rows[env.last.url].text = "changed"

-----------------------------------------------------------------------------
(* The parser's events in a turn, pipeline.py lines 303, 347 and 365.      *)

\* C35: once a turn is over, its trace holds a tool_calls_coerced event when a
\* response of the governor was bare tool-call JSON the parser coerced, and a
\* tool_calls_parse_warning event when the parser rejected an entry or a
\* payload of one of the turn's responses.
C35_ParserEventsTraced ==
    pc = "done" =>
        \A k \in Positions("llm_done") :
            LET parsed == extract_tool_calls(trace[k].text)
            IN  /\ (trace[k].role = "governor" /\ parsed.coerced)
                      => Positions("tool_calls_coerced") # {}
                /\ parsed.warnings # <<>>
                      => Positions("tool_calls_parse_warning") # {}

-----------------------------------------------------------------------------
(* _format_history, pipeline.py lines 72-101: the HISTORY_JSON text of a    *)
(* prompt. The content of a message is a sequence of runs of one character. *)

MAX_MESSAGES == 8
MAX_CHARS == 2000

Run(ch, n) == [ch |-> ch, n |-> n]

\* len(content)
RECURSIVE RawLen(_)
RawLen(runs) == IF runs = <<>> THEN 0 ELSE runs[1].n + RawLen(Tail(runs))

\* content[-k:] for k > 0
RECURSIVE TailChars(_, _)
TailChars(runs, k) ==
    IF runs = <<>> THEN <<>>
    ELSE Let(runs[Len(runs)], LAMBDA last :
         IF last.n >= k THEN <<Run(last.ch, k)>>
         ELSE TailChars(SubSeq(runs, 1, Len(runs) - 1), k - last.n) \o <<last>>)

\* json.dumps of one character inside a string, ensure_ascii=False
Escaped(ch) ==
    IF ch = "\"" THEN "\\\""
    ELSE IF ch = "\n" THEN "\\n"
    ELSE ch

RECURSIVE DumpContent(_)
DumpContent(runs) ==
    IF runs = <<>> THEN ""
    ELSE Rep(Escaped(runs[1].ch), runs[1].n) \o DumpContent(Tail(runs))

DumpMessage(message) ==
    "{\"role\": \"" \o message.role \o "\", \"content\": \""
        \o DumpContent(message.content) \o "\"}"

RECURSIVE DumpMessages(_)
DumpMessages(history) ==
    IF history = <<>> THEN ""
    ELSE IF Len(history) = 1 THEN DumpMessage(history[1])
    ELSE DumpMessage(history[1]) \o ", " \o DumpMessages(Tail(history))

\* json.dumps(history, ensure_ascii=False)
dumps_history(history) == "[" \o DumpMessages(history) \o "]"

\* messages[-n:] for n > 0
LastOnes(messages, n) ==
    IF Len(messages) <= n THEN messages
    ELSE SubSeq(messages, Len(messages) - n + 1, Len(messages))

\* the while loop, lines 81-100
RECURSIVE FitHistory(_, _)
FitHistory(history, max_chars) ==
    IF history = <<>> THEN history
    ELSE IF Len(dumps_history(history)) <= max_chars THEN history
    ELSE IF Len(history) > 1 THEN FitHistory(Tail(history), max_chars)
    ELSE Let(max_chars - Len(dumps_history(<<ChatMessage(history[1].role, <<>>)>>)),
             LAMBDA allowed :
                IF allowed <= 0 THEN <<>>
                ELSE <<ChatMessage(history[1].role,
                               TailChars(history[1].content, allowed))>>)

\* _format_history: the history kept and its text
format_history(messages, max_messages, max_chars) ==
    Let(SelectSeq(messages, LAMBDA m : m.role \in {"user", "assistant"}),
        LAMBDA filtered :
    Let(IF max_messages > 0 THEN LastOnes(filtered, max_messages) ELSE filtered,
        LAMBDA kept :
    Let(IF max_chars > 0 THEN FitHistory(kept, max_chars) ELSE kept,
        LAMBDA history :
            [history |-> history, text |-> dumps_history(history)])))

HistoryRoles == <<"user", "assistant", "system">>

\* n short messages of the three roles in turn, each with its own content
Older(n) == [i \in 1..n |-> ChatMessage(HistoryRoles[((i - 1) % 3) + 1], <<Run("m", i)>>)]

Contents ==
    { <<Run("h", 1), Run("i", 1)>>,
      <<Run("a", LongLen)>>,
      <<Run("\"", LongLen)>>,
      <<Run("a", LongLen \div 2), Run("\n", LongLen \div 2)>> }

Histories ==
    LET latest == {<<>>} \cup {<<ChatMessage(role, content)>> :
                                  role \in {"user", "assistant", "system"},
                                  content \in Contents}
    IN  UNION {{Older(n) \o l, l \o Older(n)} : n \in 0..MaxOlder, l \in latest}

InitHistory ==
    /\ state = FreshState
    /\ pc = "history"
    /\ ToolIdle
    /\ \E messages \in Histories :
          env = [op |-> "history", called |-> FALSE, messages |-> messages,
                 out |-> [history |-> <<>>, text |-> ""]]

\* run_pipeline line 162: history_text = _format_history(recent_messages)
FormatHistory ==
    /\ pc = "history"
    /\ ~env.called
    /\ env' = [env EXCEPT !.called = TRUE,
                          !.out = format_history(env.messages, MAX_MESSAGES, MAX_CHARS)]
    /\ UNCHANGED <<state, pc, roleIdx, response, finalResponse, toolCalls,
                   toolResults, trace, results, finalText, hasExecutor,
                   maxToolRounds, menu, roleStartState, executed, capOp, stream,
                   sessionVars>>

NextHistory == FormatHistory

SpecHistory == InitHistory /\ [][NextHistory]_vars

\* C36: the HISTORY_JSON text of a recent_messages list holds only user and
\* assistant messages, at most the last 8 of them in their order (a single
\* remaining message with the tail of its content), and is at most 2000
\* characters long, also when that content holds characters JSON escapes.
C36_HistoryBounded ==
    env.called =>
        LET history == env.out.history
            filtered == SelectSeq(env.messages,
                                  LAMBDA m : m.role \in {"user", "assistant"})
            from == Len(filtered) - Len(history)
        IN  /\ \A i \in DOMAIN history : history[i].role \in {"user", "assistant"}
            /\ Len(history) <= 8
            /\ from >= 0
            /\ \A i \in DOMAIN history :
                  /\ history[i].role = filtered[from + i].role
                  /\ \/ history[i].content = filtered[from + i].content
                     \/ /\ Len(history) = 1
                        /\ history[i].content
                             = TailChars(filtered[from + i].content,
                                         RawLen(history[i].content))
            /\ env.out.text = dumps_history(history)
            /\ Len(env.out.text) <= 2000

-----------------------------------------------------------------------------
(* The visible answers of a turn, pipeline.py lines 392-438 and             *)
(* controller.py lines 57-68.                                               *)

\* the visible_response events among events[from + 1 .. to], in order
RECURSIVE VisibleIn(_, _, _)
VisibleIn(events, from, to) ==
    IF from >= to THEN <<>>
    ELSE (IF events[from + 1].kind = "visible_response"
          THEN <<events[from + 1]>> ELSE <<>>)
         \o VisibleIn(events, from + 1, to)

RolesOf(events) == [k \in DOMAIN events |-> events[k].role]

\* the visible_response events the k-th operation of the session wrote
VisibleOfTurn(k) ==
    VisibleIn(traces[sess.log[k].run_id], sess.log[k].from, sess.log[k].to)

\* the turns that loaded their checkpoint and were not killed
RanTurn(k) ==
    sess.log[k].op = "turn" /\ sess.log[k].outcome \notin {"load_error", "crashed"}

\* C37: every turn writes one visible_response event per role, in role order
\* and no other; the final_text run_pipeline returns is the text of the last
\* of them, and it is the content of the assistant message the turn stores.
C37_OneVisibleAnswer ==
    /\ sess.op = "turn" =>
          Let(VisibleIn(trace, sess.base, Len(trace)), LAMBDA visible :
              /\ IsPrefix(RolesOf(visible), DefaultRoles)
              /\ pc \in {"done", "save"} =>
                    /\ RolesOf(visible) = DefaultRoles
                    /\ finalText = visible[Len(visible)].text)
    /\ \A k \in DOMAIN sess.log :
          RanTurn(k) => RolesOf(VisibleOfTurn(k)) = DefaultRoles
    /\ \A k \in DOMAIN sess.log :
          SavedTurn(k) =>
              Let(Stored(sess.log[k].after).recent_messages, LAMBDA stored :
                  /\ stored[Len(stored)]
                        = ChatMessage("assistant",
                                      VisibleOfTurn(k)[Len(DefaultRoles)].text))

-----------------------------------------------------------------------------
(* analysis/autopsy.py, autopsy_from_trace lines 134-318: the anomalies the *)
(* analyzer reports for the events of a trace file.                         *)

\* the events of the traces analyzed, all of the governor
AutopsyEvents ==
    {Event("llm_req", "governor"), Event("llm_done", "governor")}
    \cup {[Event("tool_start", "governor") EXCEPT !.id = id] : id \in {"t1", "t2"}}
    \cup {[Event("tool_done", "governor") EXCEPT !.id = id, !.ok = ok] :
             id \in {"t1", "t2"}, ok \in BOOLEAN}

Anomaly(code, evidence) == [code |-> code, evidence |-> evidence]

\* the loop over the events, lines 140-271; acc holds the counters, the open
\* stages of the role, the id sets, the last ok of each id and the anomalies
RECURSIVE AutopsyLoop(_, _)
AutopsyLoop(events, acc) ==
    IF events = <<>> THEN acc
    ELSE Let(events[1], LAMBDA event :
         AutopsyLoop(Tail(events),
            CASE event.kind = "llm_req" ->
                    [acc EXCEPT
                       !.llm_req_count = @ + 1,
                       !.open_stages = @ + 1,
                       !.anomalies =
                          IF acc.open_stages > 0
                          THEN @ \cup {Anomaly("llm_req_done_mismatch", event.role)}
                          ELSE @]
              [] event.kind = "llm_done" ->
                    [acc EXCEPT
                       !.llm_done_count = @ + 1,
                       !.open_stages = IF @ > 0 THEN @ - 1 ELSE @]
              [] event.kind = "tool_start" ->
                    [acc EXCEPT !.tool_start_ids = @ \cup {event.id}]
              [] event.kind = "tool_done" ->
                    [acc EXCEPT
                       !.tool_done_ids = @ \cup {event.id},
                       !.failed = IF event.ok THEN @ \ {event.id}
                                  ELSE @ \cup {event.id}]
              [] OTHER -> acc))

\* autopsy_from_trace: the anomalies of the report
autopsy_from_trace(events) ==
    Let(AutopsyLoop(events, [llm_req_count |-> 0, llm_done_count |-> 0,
                             open_stages |-> 0, tool_start_ids |-> {},
                             tool_done_ids |-> {}, failed |-> {},
                             anomalies |-> {}]),
        LAMBDA acc :
            acc.anomalies
            \cup {Anomaly("tool_missing_done", id) :
                     id \in acc.tool_start_ids \ acc.tool_done_ids}
            \cup {Anomaly("tool_failed", id) : id \in acc.failed}
            \cup (IF acc.llm_req_count # acc.llm_done_count
                  THEN {Anomaly("llm_req_done_mismatch", "counts")} ELSE {}))

InitAutopsy ==
    /\ state = FreshState
    /\ pc = "autopsy"
    /\ ToolIdle
    /\ \E events \in SeqsUpTo(AutopsyEvents, MaxEvents) :
          env = [op |-> "autopsy", called |-> FALSE, events |-> events,
                 anomalies |-> {}]

AutopsyFromTrace ==
    /\ pc = "autopsy"
    /\ ~env.called
    /\ env' = [env EXCEPT !.called = TRUE,
                          !.anomalies = autopsy_from_trace(env.events)]
    /\ UNCHANGED <<state, pc, roleIdx, response, finalResponse, toolCalls,
                   toolResults, trace, results, finalText, hasExecutor,
                   maxToolRounds, menu, roleStartState, executed, capOp, stream,
                   sessionVars>>

NextAutopsy == AutopsyFromTrace

SpecAutopsy == InitAutopsy /\ [][NextAutopsy]_vars

\* the ids of the events of one kind in the analyzed trace
IdsOfKind(kind) ==
    {env.events[k].id : k \in {j \in DOMAIN env.events : env.events[j].kind = kind}}

CountOfKind(kind) ==
    Cardinality({j \in DOMAIN env.events : env.events[j].kind = kind})

\* C38: the report of the analyzer holds an anomaly when the trace has
\* different numbers of llm_req and llm_done events, an anomaly for every id
\* with a tool_start and no tool_done, and an anomaly for every id with a
\* tool_done and no tool_start.
C38_UnpairedEventsReported ==
    env.called =>
        /\ CountOfKind("llm_req") # CountOfKind("llm_done")
              => \E a \in env.anomalies : a.code = "llm_req_done_mismatch"
        /\ \A id \in IdsOfKind("tool_start") \ IdsOfKind("tool_done") :
              \E a \in env.anomalies : a.code # "tool_failed" /\ a.evidence = id
        /\ \A id \in IdsOfKind("tool_done") \ IdsOfKind("tool_start") :
              \E a \in env.anomalies : a.code # "tool_failed" /\ a.evidence = id

-----------------------------------------------------------------------------
(* Notes and tool rounds, pipeline.py lines 300-366 and 401-414.           *)

\* the notes block run_pipeline reads from a response
NotesOf(text) == extract_notes(extract_tool_calls(text).text)

\* the governor ran a tool round in this turn
ToolRoundRan == \E k \in Positions("tool_plan") : ~trace[k].ignored

IsGrant(action) == StartsWith(action, GRANT_PREFIX)

\* C39: when the governor ran a tool round, the state the governor leaves is
\* the state it started from changed by the notes block of its second response
\* alone, and it wrote a notes_patch event only for that block; and no
\* grant_permission action has taken effect in a turn before a tool call of
\* the turn is started.
C39_FirstResponseNotesUnused ==
    /\ (pc = "done" /\ ToolRoundRan) =>
          Let(NotesOf(LastResponse("governor")), LAMBDA notes :
              /\ state = IF notes.some
                         THEN ApplyPatch("governor", roleStartState, notes.patch).state
                         ELSE roleStartState
              /\ Cardinality({k \in Positions("notes_patch") :
                                 trace[k].role = "governor"})
                    = IF notes.some THEN 1 ELSE 0)
    /\ \A k \in Positions("tool_start") :
          \A j \in 1..(k - 1) :
              trace[j].kind = "actions" =>
                  \A a \in DOMAIN trace[j].applied : ~IsGrant(trace[j].applied[a])

-----------------------------------------------------------------------------
(* A turn of a session and the admin tools of scripts/capabilities_admin.py *)
(* and runtime/open_loops_admin.py run by another process on the same       *)
(* checkpoint file: each command loads the file, changes its copy and calls *)
(* save_checkpoint, at any moment the turn is not itself saving.            *)

StoredState(file) == load_or_create(file, 0).state

AdminCommands ==
    {[kind |-> kind, cap |-> cap] : kind \in {"revoke", "grant"}, cap \in Caps}
    \cup {[kind |-> "add_open_loop", cap |-> ""]}

\* what a command does to the copy of the state it loaded
admin_change(command, st) ==
    CASE command.kind = "revoke" -> revoke_permission(st, command.cap)
      [] command.kind = "grant" -> grant_permission(st, command.cap)
      [] OTHER -> [state |-> [st EXCEPT !.open_loops = Append(@, build_entry(@))],
                   changed |-> TRUE]

\* _handle_revoke, _handle_grant and add_open_loop on the checkpoint file at
\* time now: whether save_checkpoint was called, and the file afterwards
admin_run(command, file, now) ==
    Let(IF command.kind = "add_open_loop" THEN load_or_create(file, now)
        ELSE load_latest(file), LAMBDA r :
    IF ~r.ok \/ ~r.found THEN [saved |-> FALSE, file |-> file]
    ELSE Let(admin_change(command, r.state), LAMBDA change :
         IF ~change.changed THEN [saved |-> FALSE, file |-> file]
         ELSE [saved |-> TRUE,
               file |-> FileOf(asdict([r.checkpoint EXCEPT !.revision = @ + 1,
                                                           !.updated_ts = now],
                                      change.state))]))

\* the checkpoint the session starts with: revision 1, 'net' granted
RaceState == State(<<>>, <<"loop-1">>, <<>>, <<>>, "", <<>>, <<>>, <<"net">>, <<>>)
RaceFile == FileOf(asdict(Checkpoint(SESSION, 1, 0, <<>>, <<>>), RaceState))

InitRace ==
    /\ state = FreshState
    /\ pc = "idle"
    /\ roleIdx = 1
    /\ response = <<>>
    /\ finalResponse = <<>>
    /\ toolCalls = <<>>
    /\ toolResults = <<>>
    /\ trace = <<>>
    /\ results = <<>>
    /\ finalText = <<>>
    /\ hasExecutor = TRUE
    /\ maxToolRounds = 2
    /\ menu \in SessionMenus
    /\ roleStartState = state
    /\ executed = <<>>
    /\ stream = FALSE
    /\ env = [op |-> "race", admin |-> <<>>]
    /\ capOp = CapIdle
    /\ checkpoint = Checkpoint(SESSION, 0, 0, <<>>, <<>>)
    /\ clock = 1
    /\ files = [json |-> RaceFile, tmp |-> Absent]
    /\ traces = <<>>
    /\ sess = NoOperation
    /\ limits = [turns |-> 1, adds |-> 0, faults |-> 0]
    /\ saveCall = NoSave
    /\ lastLoad = NotLoaded

\* an admin command runs from its load to the return of its save
AdminCommand(command) ==
    /\ env.op = "race"
    /\ pc \notin SavePcs
    /\ Len(env.admin) < MaxAdminOps
    /\ LET run == admin_run(command, files.json, clock)
       IN  /\ files' = [files EXCEPT !.json = run.file]
           /\ clock' = IF run.saved THEN clock + 1 ELSE clock
           /\ env' = [env EXCEPT !.admin =
                         Append(@, [command |-> command, saved |-> run.saved,
                                    in_flight |-> sess.op = "turn",
                                    entry |-> build_entry(StoredState(files.json).open_loops),
                                    before |-> files.json, after |-> run.file])]
    /\ UNCHANGED <<state, pc, roleIdx, response, finalResponse, toolCalls,
                   toolResults, trace, results, finalText, hasExecutor,
                   maxToolRounds, menu, roleStartState, executed, capOp, stream,
                   checkpoint, traces, sess, limits, saveCall, lastLoad>>

NextRace ==
    \/ TurnStart
    \/ LlmReq
    \/ \E completion \in menu : LlmDone(completion)
    \/ ToolStart
    \/ \E handler_ok \in BOOLEAN : ToolDone(handler_ok)
    \/ ToolRoundReq
    \/ \E completion \in menu : ToolRoundDone(completion)
    \/ FinishRole
    \/ TurnFinish
    \/ SaveBegin
    \/ SaveOpen
    \/ SaveWrite
    \/ SaveSync
    \/ SaveReplace
    \/ \E command \in AdminCommands : AdminCommand(command)

SpecRace == InitRace /\ [][NextRace]_vars

\* the admin commands that saved while the turn was in flight
SavedInFlight == {k \in DOMAIN env.admin : env.admin[k].saved /\ env.admin[k].in_flight}

\* the turn has saved, and no admin command has run since
TurnSavedLast ==
    /\ pc = "idle"
    /\ sess.log # <<>>
    /\ SavedTurn(Len(sess.log))
    /\ files.json = LastEnded.after

\* the state st holds the change that the command of record ran saved
Reflects(ran, st) ==
    CASE ran.command.kind = "revoke" -> ~In(st.capabilities_granted, ran.command.cap)
      [] ran.command.kind = "grant" -> In(st.capabilities_granted, ran.command.cap)
      [] OTHER -> In(st.open_loops, ran.entry)

\* C40 as stated: once a turn and the admin commands that saved while it was
\* in flight have finished, the checkpoint file reflects each of those
\* changes and its revision has risen once per save.
C40_AdminChangeKept ==
    TurnSavedLast =>
        /\ \A k \in SavedInFlight :
              Reflects(env.admin[k], StoredState(files.json))
        /\ Stored(files.json).revision
              = Stored(LastEnded.before).revision + 1 + Cardinality(SavedInFlight)

\* C40 as amended: a change an admin command saves while a turn is in flight,
\* before the turn's final save begins, is in the file when the command
\* returns, with the revision raised by one, and is overwritten by the turn's
\* final save (the last writer wins): the file then holds the state the turn
\* loaded as changed by the turn alone, a change the turn's own state does
\* not hold is not in it, and its revision is the one the turn loaded plus one.
C40_TurnSaveOverwrites ==
    /\ \A k \in DOMAIN env.admin :
          env.admin[k].saved =>
              /\ Reflects(env.admin[k], StoredState(env.admin[k].after))
              /\ Stored(env.admin[k].after).revision
                    = Stored(env.admin[k].before).revision + 1
    /\ TurnSavedLast =>
          /\ StoredState(files.json) = state
          /\ StoredState(files.json).capabilities_granted
                = StoredState(LastEnded.before).capabilities_granted
          /\ \A k \in SavedInFlight :
                ~Reflects(env.admin[k], state) =>
                    ~Reflects(env.admin[k], StoredState(files.json))
          /\ Stored(files.json).revision = Stored(LastEnded.before).revision + 1

\* 'net' was revoked and saved while the turn was in flight, the turn has
\* saved, and 'net' is granted in the checkpoint file
C40_Witness ==
    /\ TurnSavedLast
    /\ \E k \in SavedInFlight :
          /\ env.admin[k].command = [kind |-> "revoke", cap |-> "net"]
          /\ ~In(StoredState(env.admin[k].after).capabilities_granted, "net")
    /\ In(StoredState(files.json).capabilities_granted, "net")

====
